---- MODULE Spec2Model ----
(***************************************************************************)
(* Model of the drag, collision and exit engine of color-block-pwa:        *)
(* Grid (occupancy table, coordinate conversion), Block (geometry, drag    *)
(* lifecycle), ExitZone, CollisionDetector and DragController.             *)
(*                                                                         *)
(* World coordinates are pixels.  The program computes them in IEEE        *)
(* doubles; the model keeps them integers by drawing pointer positions     *)
(* from a lattice on which every sample of the swept movement is integral, *)
(* so every arithmetic step of the source is exact in the model.           *)
(***************************************************************************)
EXTENDS Integers, Sequences, FiniteSets, TLC

(***************************************************************************)
(* Bounds of the model                                                     *)
(***************************************************************************)
\* Pointer coordinates are reported on a lattice of PointerStep pixels.
PointerStep == 2
\* A single pointer move displaces the pointer by at most MaxDelta lattice
\* steps on each axis.
MaxDelta == 2
\* The exit lists handed to checkExitCondition on its own have at most
\* MaxExits exits.
MaxExits == 2
\* The positions handed to isValidGridPosition and
\* findNearestValidGridPosition on their own reach SearchReach cells beyond
\* the grid on every side.
SearchReach == 4
\* A level's countdown starts at TimeLimit seconds.
TimeLimit == 2
\* At most MaxFadeTaps pointerdowns reach blocks during the 300 ms of their
\* removal tweens.
MaxFadeTaps == 2
\* The grids built on their own have 1..MaxGridSide rows and columns and are
\* given a pixel area of 1..MaxPixels by 1..MaxPixels.
MaxGridSide == 3
MaxPixels == 30

(***************************************************************************)
(* Program constants                                                       *)
(***************************************************************************)
COLLISION_BUFFER == 2
maxDistance == 3

Null == "null"

(***************************************************************************)
(* Level fixture: the data GameScene.create reads from a LevelData and the *)
(* pixel area it hands to the Grid constructor.                            *)
(*                                                                         *)
(*        col 0   col 1   col 2                                            *)
(* row 0  block-0 block-0   .      -> "Blue" exit on the right, row 0      *)
(* row 1    .     obstacle block-1 -> "red" exits: bottom col 2, right     *)
(*                                    row 1                                *)
(***************************************************************************)
gridSize == [rows |-> 2, cols |-> 3]

VARIABLE currentLevel      \* GameScene.currentLevel: the id of the level loaded

(***************************************************************************)
(* LEVELS[1] is the level drawn above.  LEVELS[2] is the first level of    *)
(* the game on the smaller grid: the two-cell blue block one cell from the *)
(* left wall and a blue exit on the left of its row only.  LEVELS[3] has   *)
(* two one-cell blocks side by side at (0,0) and (0,1) and no obstacle.    *)
(* LEVELS[4] has the first of these two blocks only.                       *)
(***************************************************************************)
LEVELS ==
  << [ gridSize  |-> gridSize,
       timeLimit |-> TimeLimit,
       blocks    |-> << [color |-> <<"b","l","u","e">>, shape |-> "1x2",
                         startPosition |-> [row |-> 0, col |-> 0]],
                        [color |-> <<"r","e","d">>, shape |-> "1x1",
                         startPosition |-> [row |-> 1, col |-> 2]] >>,
       obstacles |-> { [row |-> 1, col |-> 1] },
       exits     |-> << [color |-> <<"B","l","u","e">>, side |-> "right",
                         startCell |-> 0, endCell |-> 0],
                        [color |-> <<"r","e","d">>, side |-> "bottom",
                         startCell |-> 2, endCell |-> 2],
                        [color |-> <<"r","e","d">>, side |-> "right",
                         startCell |-> 1, endCell |-> 1] >> ],
     [ gridSize  |-> gridSize,
       timeLimit |-> TimeLimit,
       blocks    |-> << [color |-> <<"b","l","u","e">>, shape |-> "1x2",
                         startPosition |-> [row |-> 0, col |-> 1]],
                        [color |-> <<"r","e","d">>, shape |-> "1x1",
                         startPosition |-> [row |-> 1, col |-> 0]] >>,
       obstacles |-> { [row |-> 1, col |-> 1] },
       exits     |-> << [color |-> <<"b","l","u","e">>, side |-> "left",
                         startCell |-> 0, endCell |-> 0],
                        [color |-> <<"r","e","d">>, side |-> "right",
                         startCell |-> 1, endCell |-> 1] >> ],
     [ gridSize  |-> gridSize,
       timeLimit |-> TimeLimit,
       blocks    |-> << [color |-> <<"b","l","u","e">>, shape |-> "1x1",
                         startPosition |-> [row |-> 0, col |-> 0]],
                        [color |-> <<"r","e","d">>, shape |-> "1x1",
                         startPosition |-> [row |-> 0, col |-> 1]] >>,
       obstacles |-> { },
       exits     |-> << [color |-> <<"b","l","u","e">>, side |-> "bottom",
                         startCell |-> 0, endCell |-> 0],
                        [color |-> <<"r","e","d">>, side |-> "right",
                         startCell |-> 1, endCell |-> 1] >> ],
     [ gridSize  |-> gridSize,
       timeLimit |-> TimeLimit,
       blocks    |-> << [color |-> <<"b","l","u","e">>, shape |-> "1x1",
                         startPosition |-> [row |-> 0, col |-> 0]] >>,
       obstacles |-> { },
       exits     |-> << [color |-> <<"b","l","u","e">>, side |-> "bottom",
                         startCell |-> 0, endCell |-> 0] >> ] >>

getLevel(levelId) == LEVELS[levelId]

\* const levelData = getLevel(this.currentLevel)
LevelData == getLevel(currentLevel)

GridConfig ==
  [ rows |-> gridSize.rows, cols |-> gridSize.cols,
    x |-> 0, y |-> 0, maxWidth |-> 23, maxHeight |-> 17 ]

(***************************************************************************)
(* Arithmetic helpers                                                      *)
(***************************************************************************)
Min(a, b) == IF a <= b THEN a ELSE b
Max(a, b) == IF a >= b THEN a ELSE b
Abs(a) == IF a < 0 THEN -a ELSE a

\* Math.floor(a / b) for b > 0
Floor(a, b) == a \div b

SetMin(S) == CHOOSE m \in S : \A e \in S : m <= e
SetMax(S) == CHOOSE m \in S : \A e \in S : m >= e

(***************************************************************************)
(* Shape catalog                                                           *)
(***************************************************************************)
O(r, c) == [row |-> r, col |-> c]

SHAPES ==
  [ s \in {"1x1", "1x2", "1x3", "2x2", "2x3", "3x3", "L_0", "L_90", "L_180",
           "L_270", "T_0", "T_90", "T_180", "T_270", "Cross"} |->
    CASE s = "1x1" -> <<O(0,0)>>
      [] s = "1x2" -> <<O(0,0), O(0,1)>>
      [] s = "1x3" -> <<O(0,0), O(0,1), O(0,2)>>
      [] s = "2x2" -> <<O(0,0), O(0,1), O(1,0), O(1,1)>>
      [] s = "2x3" -> <<O(0,0), O(0,1), O(0,2), O(1,0), O(1,1), O(1,2)>>
      [] s = "3x3" -> <<O(0,0), O(0,1), O(0,2), O(1,0), O(1,1), O(1,2),
                        O(2,0), O(2,1), O(2,2)>>
      [] s = "L_0" -> <<O(0,0), O(1,0), O(2,0), O(2,1)>>
      [] s = "L_90" -> <<O(0,0), O(0,1), O(0,2), O(1,0)>>
      [] s = "L_180" -> <<O(0,0), O(0,1), O(1,1), O(2,1)>>
      [] s = "L_270" -> <<O(0,2), O(1,0), O(1,1), O(1,2)>>
      [] s = "T_0" -> <<O(0,1), O(1,0), O(1,1), O(1,2)>>
      [] s = "T_90" -> <<O(0,0), O(1,0), O(1,1), O(2,0)>>
      [] s = "T_180" -> <<O(0,0), O(0,1), O(0,2), O(1,1)>>
      [] s = "T_270" -> <<O(0,1), O(1,0), O(1,1), O(2,1)>>
      [] s = "Cross" -> <<O(0,1), O(1,0), O(1,1), O(1,2), O(2,1)>> ]

\* A catalog whose shapes start one row further down
getShapeOffsetsShifted(shape) ==
  [i \in DOMAIN SHAPES[shape] |-> O(SHAPES[shape][i].row + 1, SHAPES[shape][i].col)]

\* A catalog whose shapes of more than two cells miss their second cell
getShapeOffsetsWithGap(shape) ==
  IF Len(SHAPES[shape]) > 2
  THEN [i \in 1..(Len(SHAPES[shape]) - 1) |->
          SHAPES[shape][IF i = 1 THEN 1 ELSE i + 1]]
  ELSE SHAPES[shape]

getShapeOffsets(shape) == SHAPES[shape]

Range(seq) == { seq[i] : i \in DOMAIN seq }

(***************************************************************************)
(* Grid: construction                                                      *)
(***************************************************************************)
\* Math.floor(tempCellSize / 3), tempCellSize = min(maxWidth / (cols + 0.67),
\* maxHeight / (rows + 0.67))
rows == gridSize.rows
cols == gridSize.cols

wallThickness ==
  LET thickness(config) ==
        Min(Floor(100 * config.maxWidth, 3 * (100 * config.cols + 67)),
            Floor(100 * config.maxHeight, 3 * (100 * config.rows + 67)))
  IN  thickness(GridConfig)

calculateCellSize(maxWidth, maxHeight) ==
  LET size(wall) == Min(Floor(maxWidth - wall * 2, cols), Floor(maxHeight - wall * 2, rows))
  IN  size(wallThickness)

cellSize ==
  LET size(config) == calculateCellSize(config.maxWidth, config.maxHeight)
  IN  size(GridConfig)

Cells == { O(r, c) : r \in 0..(rows - 1), c \in 0..(cols - 1) }

(***************************************************************************)
(* Grid: coordinate conversion and bounds                                  *)
(***************************************************************************)
worldToGrid(worldX, worldY) ==
  LET position(config, wall, size) ==
        [row |-> Floor(worldY - (config.y + wall), size),
         col |-> Floor(worldX - (config.x + wall), size)]
  IN  position(GridConfig, wallThickness, cellSize)

gridToWorld(row, col) ==
  LET position(config, wall, size) ==
        [x |-> config.x + wall + col * size, y |-> config.y + wall + row * size]
  IN  position(GridConfig, wallThickness, cellSize)

isInBounds(row, col) == row >= 0 /\ row < rows /\ col >= 0 /\ col < cols

GridWorldBounds ==
  LET bounds(config, wall, size) ==
        [left |-> config.x,
         right |-> config.x + wall * 2 + cols * size,
         top |-> config.y,
         bottom |-> config.y + wall * 2 + rows * size]
  IN  bounds(GridConfig, wallThickness, cellSize)

getPlayableBounds ==
  LET bounds(config, wall, size) ==
        [left |-> config.x + wall,
         right |-> config.x + wall + cols * size,
         top |-> config.y + wall,
         bottom |-> config.y + wall + rows * size]
  IN  bounds(GridConfig, wallThickness, cellSize)

(***************************************************************************)
(* State                                                                   *)
(***************************************************************************)
VARIABLES
  cells,                   \* Grid.cells: cell -> occupying block or Null
  blocks,                  \* the level's block list shared by GameScene and DragController
  gridPosition,            \* Block.gridPosition
  lastValidPosition,       \* Block.lastValidPosition
  pos,                     \* Block.x, Block.y (the container's world position)
  isDragging,              \* Block.isDragging
  dragOffset,              \* Block.dragOffset
  disposal,                \* "none", "tween" (removeBlock's tween runs), "destroyed"
  activeBlock,             \* DragController.activeBlock
  hasHadFirstInteraction,  \* DragController.hasHadFirstInteraction
  timerStarted,            \* GameScene.timerStarted
  timerEvents,             \* the number of timer events GameScene has added
  timer,                   \* GameScene.timer: the seconds left
  isGameActive,            \* GameScene.isGameActive
  timerEventRemoved,       \* GameScene.timerEvent has been removed
  triggered,               \* the calls of onLevelComplete and onTimeUp, in order
  scene,                   \* the scene that runs
  lastEvent,               \* the handler that ran last and the callbacks it invoked
  probe                    \* the last call of a pure function made by a probe action

\* The state of the play that GameScene keeps
sceneVars == << timer, isGameActive, timerEventRemoved, triggered, scene >>

gameVars == << currentLevel, cells, blocks, gridPosition, lastValidPosition, pos, isDragging,
               dragOffset, disposal, activeBlock, hasHadFirstInteraction,
               timerStarted, timerEvents, timer, isGameActive, timerEventRemoved,
               triggered, scene, lastEvent >>
vars == << currentLevel, cells, blocks, gridPosition, lastValidPosition, pos, isDragging,
           dragOffset, disposal, activeBlock, hasHadFirstInteraction,
           timerStarted, timerEvents, timer, isGameActive, timerEventRemoved,
           triggered, scene, lastEvent, probe >>

(***************************************************************************)
(* Block: identity and shape                                               *)
(***************************************************************************)
\* id: `block-${index}` of GameScene.create
BlockIdOf == [i \in DOMAIN LevelData.blocks |->
                << "block-0", "block-1", "block-2", "block-3" >>[i]]
BlockIds == Range(BlockIdOf)
BlockIndex(b) == CHOOSE i \in DOMAIN BlockIdOf : BlockIdOf[i] = b

color == [b \in BlockIds |-> LevelData.blocks[BlockIndex(b)].color]
shape == [b \in BlockIds |-> LevelData.blocks[BlockIndex(b)].shape]

\* Block constructor: the shift applied by the normalisation
originOffsetOf(s) ==
  LET rawOffsets == getShapeOffsets(s)
      minRow == SetMin({ rawOffsets[i].row : i \in DOMAIN rawOffsets })
      minCol == SetMin({ rawOffsets[i].col : i \in DOMAIN rawOffsets })
  IN  [row |-> minRow, col |-> minCol]

\* Block constructor: offsets normalised to start from (0, 0)
normalizedOffsetsOf(s) ==
  LET rawOffsets == getShapeOffsets(s)
      o == originOffsetOf(s)
  IN  [i \in DOMAIN rawOffsets |->
         [row |-> rawOffsets[i].row - o.row, col |-> rawOffsets[i].col - o.col]]

shapeOriginOffset == [b \in BlockIds |-> originOffsetOf(shape[b])]
shapeOffsets == [b \in BlockIds |-> normalizedOffsetsOf(shape[b])]

(***************************************************************************)
(* Block: geometry.  gp stands for this.gridPosition at the time of call.  *)
(***************************************************************************)
getOccupiedCells(b, gp) ==
  LET cellsFrom(origin) ==
        { [row |-> gp.row + o.row + origin.row, col |-> gp.col + o.col + origin.col] :
          o \in Range(shapeOffsets[b]) }
  IN  cellsFrom(shapeOriginOffset[b])

getWorldBounds(b, gp) ==
  LET extent(offs) ==
        [minRow |-> SetMin({ o.row : o \in offs }),
         maxRow |-> SetMax({ o.row : o \in offs }),
         minCol |-> SetMin({ o.col : o \in offs }),
         maxCol |-> SetMax({ o.col : o \in offs })]
      bounds(e, topLeft, size) ==
        [left |-> topLeft.x,
         top |-> topLeft.y,
         right |-> topLeft.x + (e.maxCol - e.minCol + 1) * size,
         bottom |-> topLeft.y + (e.maxRow - e.minRow + 1) * size]
      boundsFrom(e, origin) ==
        bounds(e, gridToWorld(gp.row + e.minRow + origin.row,
                              gp.col + e.minCol + origin.col), cellSize)
  IN  boundsFrom(extent(Range(shapeOffsets[b])), shapeOriginOffset[b])

getWorldCellPositionsAt(b, worldX, worldY) ==
  LET cellAt(left, top, size) ==
        [left |-> left, top |-> top, right |-> left + size, bottom |-> top + size]
      positions(size) ==
        { cellAt(worldX + o.col * size, worldY + o.row * size, size) :
          o \in Range(shapeOffsets[b]) }
  IN  positions(cellSize)

(***************************************************************************)
(* Block: drag flag.  flags stands for the isDragging fields of all blocks *)
(***************************************************************************)
\* A drag-end that leaves the flag as it found it
endDragKeepsFlag(flags, b) == flags

\* Block.endDrag
endDrag(flags, b) == [flags EXCEPT ![b] = FALSE]

(***************************************************************************)
(* Grid: occupancy table                                                   *)
(***************************************************************************)
isCellOccupied(row, col) ==
  IF ~isInBounds(row, col) THEN TRUE ELSE cells[O(row, col)] # Null

getCellOccupant(row, col) ==
  IF ~isInBounds(row, col) THEN Null ELSE cells[O(row, col)]

\* A write that lands in the nearest cell of the grid when the position is
\* out of bounds
setCellOccupiedNearest(t, row, col, occupant) ==
  [t EXCEPT ![O(Max(0, Min(rows - 1, row)), Max(0, Min(cols - 1, col)))] = occupant]

\* The table after setCellOccupied(row, col, occupant) on table t
setCellOccupied(t, row, col, occupant) ==
  IF isInBounds(row, col) THEN [t EXCEPT ![O(row, col)] = occupant] ELSE t

\* The table after clearCell(row, col) on table t
clearCell(t, row, col) ==
  IF isInBounds(row, col) THEN [t EXCEPT ![O(row, col)] = Null] ELSE t

\* A clearEntity that empties the whole table
clearEntityEverything(t, entity) == [c \in DOMAIN t |-> Null]

\* A clearEntity that leaves the table as it is
clearEntityNothing(t, entity) == t

\* The table after clearEntity(entity) on table t
clearEntity(t, entity) ==
  [c \in DOMAIN t |-> IF t[c] = entity THEN Null ELSE t[c]]

\* A write that releases the cells the block already holds
updateGridOccupancyReleasesHeld(t, b, gp) ==
  [c \in DOMAIN t |->
     IF c \in getOccupiedCells(b, gp)
     THEN (IF t[c] = b THEN Null ELSE b)
     ELSE t[c]]

\* Block.updateGridOccupancy on table t, for a block whose gridPosition is gp
updateGridOccupancy(t, b, gp) ==
  LET written(cleared, occupied) ==
        [c \in DOMAIN t |-> IF c \in occupied THEN b ELSE cleared[c]]
  IN  written(clearEntity(t, b), getOccupiedCells(b, gp))

(***************************************************************************)
(* CollisionDetector: continuous legality                                  *)
(***************************************************************************)
isObstacle(row, col) == \E obs \in LevelData.obstacles : obs.row = row /\ obs.col = col

calculateAABB(cellBounds) ==
  [left |-> SetMin({ c.left : c \in cellBounds }),
   top |-> SetMin({ c.top : c \in cellBounds }),
   right |-> SetMax({ c.right : c \in cellBounds }),
   bottom |-> SetMax({ c.bottom : c \in cellBounds })]

aabbsOverlap(a, b) ==
  ~(a.right < b.left \/ a.left > b.right \/ a.bottom < b.top \/ a.top > b.bottom)

boundsOverlap(a, b, buffer) ==
  ~(a.right - buffer < b.left + buffer \/
    a.left + buffer > b.right - buffer \/
    a.bottom - buffer < b.top + buffer \/
    a.top + buffer > b.bottom - buffer)

\* An overlap test whose buffer is larger than a cell
cellsOverlapWideBuffer(cells1, cells2, buffer) ==
  \E cell1 \in cells1 : \E cell2 \in cells2 :
    boundsOverlap(cell1, cell2, buffer + cellSize)

cellsOverlap(cells1, cells2, buffer) ==
  \E cell1 \in cells1 : \E cell2 \in cells2 : boundsOverlap(cell1, cell2, buffer)

getObstacleCellBounds(row, col) ==
  LET bounds(worldPos, size) ==
        [left |-> worldPos.x,
         top |-> worldPos.y,
         right |-> worldPos.x + size,
         bottom |-> worldPos.y + size]
  IN  bounds(gridToWorld(row, col), cellSize)

\* worldToGrid of the centre ((left + right) / 2, (top + bottom) / 2) of a
\* cell rectangle; the halves are kept exact by doubling both sides of the
\* division.
centerGridPos(cell) ==
  LET position(config, wall, size) ==
        [row |-> Floor(cell.top + cell.bottom - 2 * (config.y + wall), 2 * size),
         col |-> Floor(cell.left + cell.right - 2 * (config.x + wall), 2 * size)]
  IN  position(GridConfig, wallThickness, cellSize)

\* The loop of canBlockMoveTo returns false at the first rejection, so the
\* result is true exactly when no dragged cell meets one.  The checkedBlocks
\* set only saves repeated tests: the test of an occupant involves all
\* dragged cells and does not depend on the cell that found it.
canBlockMoveTo(block, worldX, worldY) ==
  LET occupantCollides(draggedCells, occupant) ==
        /\ aabbsOverlap(calculateAABB(draggedCells),
                        getWorldBounds(occupant, gridPosition[occupant]))
        /\ cellsOverlap(draggedCells,
                        getWorldCellPositionsAt(occupant, pos[occupant].x, pos[occupant].y),
                        COLLISION_BUFFER)
      neighbourRejects(draggedCells, draggedCell, checkRow, checkCol, occupant) ==
        /\ isInBounds(checkRow, checkCol)
        /\ \/ /\ occupant # Null
              /\ occupant # block
              /\ occupantCollides(draggedCells, occupant)
           \/ /\ isObstacle(checkRow, checkCol)
              /\ boundsOverlap(draggedCell, getObstacleCellBounds(checkRow, checkCol),
                               COLLISION_BUFFER)
      cellRejected(draggedCells, draggedCell, gridPos) ==
        \/ ~isInBounds(gridPos.row, gridPos.col)
        \/ \E dr \in -1..1 : \E dc \in -1..1 :
             neighbourRejects(draggedCells, draggedCell, gridPos.row + dr,
                              gridPos.col + dc,
                              getCellOccupant(gridPos.row + dr, gridPos.col + dc))
      accepted(draggedCells) ==
        \A draggedCell \in draggedCells :
          ~cellRejected(draggedCells, draggedCell, centerGridPos(draggedCell))
  IN  accepted(getWorldCellPositionsAt(block, worldX, worldY))

(***************************************************************************)
(* CollisionDetector: swept drag resolution                                *)
(***************************************************************************)
\* steps = Math.ceil(distance / Math.min(cellSize * 0.5, distance)) with
\* distance = sqrt(dx*dx + dy*dy) > 0: 1 when distance <= cellSize / 2, else
\* the least n with n * cellSize / 2 >= distance.
sweepSteps(dx, dy) ==
  LET steps(d2, size) ==
        IF 4 * d2 <= size * size
        THEN 1
        ELSE SetMin({ n \in 1..(2 * (Abs(dx) + Abs(dy)) + 1) :
                        n * n * size * size >= 4 * d2 })
  IN  steps(dx * dx + dy * dy, cellSize)

\* A sweep that answers with the sample at which the collision was found
RECURSIVE sweepFromToCollision(_, _, _, _, _, _, _, _)
sweepFromToCollision(block, currentX, currentY, dx, dy, steps, i, lastValid) ==
  LET test(testX, testY) ==
        IF canBlockMoveTo(block, testX, testY)
        THEN sweepFromToCollision(block, currentX, currentY, dx, dy, steps, i + 1,
               [x |-> testX, y |-> testY])
        ELSE [x |-> testX, y |-> testY]
  IN  IF i > steps
      THEN [x |-> currentX + dx, y |-> currentY + dy]
      ELSE test(currentX + (dx * i) \div steps, currentY + (dy * i) \div steps)

\* The i-th sample currentX + dx * (i / steps) is integral for the pointer
\* positions the model draws (see IntegralSweep).
RECURSIVE sweepFrom(_, _, _, _, _, _, _, _)
sweepFrom(block, currentX, currentY, dx, dy, steps, i, lastValid) ==
  LET test(testX, testY) ==
        IF canBlockMoveTo(block, testX, testY)
        THEN sweepFrom(block, currentX, currentY, dx, dy, steps, i + 1,
               [x |-> testX, y |-> testY])
        ELSE lastValid
  IN  IF i > steps
      THEN [x |-> currentX + dx, y |-> currentY + dy]
      ELSE test(currentX + (dx * i) \div steps, currentY + (dy * i) \div steps)

getValidDragPosition(block, desiredX, desiredY, currentX, currentY) ==
  LET resolve(dx, dy) ==
        IF dx = 0 /\ dy = 0
        THEN [x |-> currentX, y |-> currentY]
        ELSE sweepFrom(block, currentX, currentY, dx, dy, sweepSteps(dx, dy), 1,
                       [x |-> currentX, y |-> currentY])
  IN  resolve(desiredX - currentX, desiredY - currentY)

\* A resolution that answers with the desired position
getValidDragPositionDesired(block, desiredX, desiredY, currentX, currentY) ==
  [x |-> desiredX, y |-> desiredY]

\* onDrag calls getValidDragPositionWithSliding.  A drag moves the block by
\* the swept stage of that resolution, the one the CollisionDetector of the
\* repository defines under the name getValidDragPosition; the later stages
\* are specified on their own in SpecSliding.
getValidDragPositionWithSliding(block, desiredX, desiredY, currentX, currentY) ==
  getValidDragPosition(block, desiredX, desiredY, currentX, currentY)

(***************************************************************************)
(* CollisionDetector: discrete legality and nearest-cell search            *)
(***************************************************************************)
\* A validity test that looks at the bounds of the position's own cell only
isValidGridPositionOriginInBounds(block, row, col) ==
  LET cellFree(checkRow, checkCol, occupant) ==
        /\ isInBounds(row, col)
        /\ ~(occupant # Null /\ occupant # block)
        /\ ~isObstacle(checkRow, checkCol)
  IN  \A offset \in Range(shapeOffsets[block]) :
        cellFree(row + offset.row, col + offset.col,
                 getCellOccupant(row + offset.row, col + offset.col))

isValidGridPosition(block, row, col) ==
  LET cellFree(checkRow, checkCol, occupant) ==
        /\ isInBounds(checkRow, checkCol)
        /\ ~(occupant # Null /\ occupant # block)
        /\ ~isObstacle(checkRow, checkCol)
  IN  \A offset \in Range(shapeOffsets[block]) :
        cellFree(row + offset.row, col + offset.col,
                 getCellOccupant(row + offset.row, col + offset.col))

\* The pairs of one ring with the column loop outside the row loop
ringOffsetsByColumn(distance) ==
  LET side == 2 * distance + 1
      all == [k \in 1..(side * side) |->
                [dRow |-> ((k - 1) % side) - distance,
                 dCol |-> ((k - 1) \div side) - distance]]
  IN  SelectSeq(all, LAMBDA p : Abs(p.dRow) = distance \/ Abs(p.dCol) = distance)

\* The (dRow, dCol) pairs of one ring, in the order of the two nested loops
ringOffsets(distance) ==
  LET side == 2 * distance + 1
      all == [k \in 1..(side * side) |->
                [dRow |-> ((k - 1) \div side) - distance,
                 dCol |-> ((k - 1) % side) - distance]]
  IN  SelectSeq(all, LAMBDA p : Abs(p.dRow) = distance \/ Abs(p.dCol) = distance)

RECURSIVE searchOffsets(_)
searchOffsets(distance) ==
  IF distance = 0
  THEN << [dRow |-> 0, dCol |-> 0] >>
  ELSE searchOffsets(distance - 1) \o ringOffsets(distance)

searchOrder == searchOffsets(maxDistance)

\* <<>> stands for null, <<p>> for the position p
findNearestValidGridPosition(block, worldX, worldY) ==
  LET candidate(gridPos, offset) ==
        [row |-> gridPos.row + offset.dRow, col |-> gridPos.col + offset.dCol]
      valid(gridPos, order) ==
        { k \in DOMAIN order :
            isValidGridPosition(block, gridPos.row + order[k].dRow,
                                gridPos.col + order[k].dCol) }
      first(gridPos, order, found) ==
        IF found = {} THEN << >> ELSE << candidate(gridPos, order[SetMin(found)]) >>
      search(gridPos, order) == first(gridPos, order, valid(gridPos, order))
  IN  search(worldToGrid(worldX, worldY), searchOrder)

(***************************************************************************)
(* ExitZone                                                                *)
(***************************************************************************)
UpperCaseLetters ==
  << "A", "B", "C", "D", "E", "F", "G", "H", "I", "J", "K", "L", "M",
     "N", "O", "P", "Q", "R", "S", "T", "U", "V", "W", "X", "Y", "Z" >>
LowerCaseLetters ==
  << "a", "b", "c", "d", "e", "f", "g", "h", "i", "j", "k", "l", "m",
     "n", "o", "p", "q", "r", "s", "t", "u", "v", "w", "x", "y", "z" >>

\* String.prototype.toLowerCase on a string given as its characters
toLowerCase(str) ==
  [i \in DOMAIN str |->
     IF \E k \in DOMAIN UpperCaseLetters : UpperCaseLetters[k] = str[i]
     THEN LowerCaseLetters[CHOOSE k \in DOMAIN UpperCaseLetters :
                             UpperCaseLetters[k] = str[i]]
     ELSE str[i]]

\* playable and worldBounds are the two constants the method starts with
exitWorldBounds(exit) ==
  LET bounds(playable, worldBounds) ==
        CASE exit.side = "top" ->
             [left |-> playable.left + exit.startCell * cellSize,
              right |-> playable.left + (exit.endCell + 1) * cellSize,
              top |-> worldBounds.top,
              bottom |-> playable.top]
        [] exit.side = "bottom" ->
             [left |-> playable.left + exit.startCell * cellSize,
              right |-> playable.left + (exit.endCell + 1) * cellSize,
              top |-> playable.bottom,
              bottom |-> worldBounds.bottom]
        [] exit.side = "left" ->
             [left |-> worldBounds.left,
              right |-> playable.left,
              top |-> playable.top + exit.startCell * cellSize,
              bottom |-> playable.top + (exit.endCell + 1) * cellSize]
        [] exit.side = "right" ->
             [left |-> playable.right,
              right |-> worldBounds.right,
              top |-> playable.top + exit.startCell * cellSize,
              bottom |-> playable.top + (exit.endCell + 1) * cellSize]
  IN  bounds(getPlayableBounds, GridWorldBounds)

\* A fit test that looks at the near end of the exit's span only
canBlockFitNearEnd(exit, blockBounds) ==
  LET fits(exitBounds) ==
        IF exit.side \in {"top", "bottom"}
        THEN blockBounds.left >= exitBounds.left
        ELSE blockBounds.top >= exitBounds.top
  IN  fits(exitWorldBounds(exit))

canBlockFit(exit, blockBounds) ==
  LET fits(exitBounds) ==
        IF exit.side \in {"top", "bottom"}
        THEN blockBounds.left >= exitBounds.left /\ blockBounds.right <= exitBounds.right
        ELSE blockBounds.top >= exitBounds.top /\ blockBounds.bottom <= exitBounds.bottom
  IN  fits(exitWorldBounds(exit))

\* tolerance2 is twice the tolerance (cellSize * 0.5 is passed as cellSize)
isBlockAligned(exit, blockBounds, tolerance2) ==
  LET aligned(exitBounds) ==
        CASE exit.side = "top" -> 2 * Abs(blockBounds.top - exitBounds.top) <= tolerance2
          [] exit.side = "bottom" ->
               2 * Abs(blockBounds.bottom - exitBounds.bottom) <= tolerance2
          [] exit.side = "left" ->
               2 * Abs(blockBounds.left - exitBounds.left) <= tolerance2
          [] exit.side = "right" ->
               2 * Abs(blockBounds.right - exitBounds.right) <= tolerance2
  IN  aligned(exitWorldBounds(exit))

\* An exit check that does not compare colours
checkExitConditionAnyColor(block, blockColor, gp, exitZones) ==
  LET matchingAt(blockBounds) ==
        { i \in DOMAIN exitZones :
                   /\ canBlockFit(exitZones[i], blockBounds)
                   /\ isBlockAligned(exitZones[i], blockBounds, cellSize) }
      pick(matching) == IF matching = {} THEN 0 ELSE SetMin(matching)
  IN  pick(matchingAt(getWorldBounds(block, gp)))

\* An exit check that answers with the last matching exit of the list
checkExitConditionLast(block, blockColor, gp, exitZones) ==
  LET matchingAt(blockBounds) ==
        { i \in DOMAIN exitZones :
                   /\ toLowerCase(exitZones[i].color) = toLowerCase(blockColor)
                   /\ canBlockFit(exitZones[i], blockBounds)
                   /\ isBlockAligned(exitZones[i], blockBounds, cellSize) }
      pick(matching) == IF matching = {} THEN 0 ELSE SetMax(matching)
  IN  pick(matchingAt(getWorldBounds(block, gp)))

\* The index in exitZones of the exit returned, 0 for null.  blockColor and
\* gp are the block's color and its gridPosition at the time of the call.
checkExitCondition(block, blockColor, gp, exitZones) ==
  LET matchingAt(blockBounds) ==
        { i \in DOMAIN exitZones :
                   /\ toLowerCase(exitZones[i].color) = toLowerCase(blockColor)
                   /\ canBlockFit(exitZones[i], blockBounds)
                   /\ isBlockAligned(exitZones[i], blockBounds, cellSize) }
      pick(matching) == IF matching = {} THEN 0 ELSE SetMin(matching)
  IN  pick(matchingAt(getWorldBounds(block, gp)))

(***************************************************************************)
(* Level load: GameScene.create                                            *)
(***************************************************************************)
\* The table after the constructors of the first i blocks of the level ran
RECURSIVE cellsAfterBlocks(_)
cellsAfterBlocks(i) ==
  IF i = 0
  THEN [c \in Cells |-> Null]
  ELSE updateGridOccupancy(cellsAfterBlocks(i - 1), BlockIdOf[i],
                           LevelData.blocks[i].startPosition)

NoEvent ==
  [handler |-> "create", block |-> Null, outcome |-> "", exit |-> 0,
   callbacks |-> << >>]

NoProbe == [op |-> "none"]

\* GameScene.create once currentLevel is set
create ==
  /\ cells = cellsAfterBlocks(Len(LevelData.blocks))
  /\ blocks = BlockIdOf
  /\ gridPosition = [b \in BlockIds |-> LevelData.blocks[BlockIndex(b)].startPosition]
  /\ lastValidPosition =
       [b \in BlockIds |-> LevelData.blocks[BlockIndex(b)].startPosition]
  /\ pos = [b \in BlockIds |->
              LET start == LevelData.blocks[BlockIndex(b)].startPosition
              IN  gridToWorld(start.row + shapeOriginOffset[b].row,
                              start.col + shapeOriginOffset[b].col)]
  /\ isDragging = [b \in BlockIds |-> FALSE]
  /\ dragOffset = [b \in BlockIds |-> [x |-> 0, y |-> 0]]
  /\ disposal = [b \in BlockIds |-> "none"]
  /\ activeBlock = Null
  /\ hasHadFirstInteraction = FALSE
  /\ timerStarted = FALSE
  /\ timerEvents = 0
  /\ timer = LevelData.timeLimit
  /\ isGameActive = TRUE
  /\ timerEventRemoved = FALSE
  /\ triggered = << >>
  /\ scene = "GameScene"
  /\ lastEvent = NoEvent
  /\ probe = NoProbe

Init ==
  /\ currentLevel = 1
  /\ create

(***************************************************************************)
(* Pointer input                                                           *)
(***************************************************************************)
\* Where on a block the pointer goes down, relative to the block's position
GrabPoints == { [x |-> PointerStep, y |-> PointerStep] }

\* Every sample currentX + dx * (i / steps) of the sweep is an integer, and a
\* point of the pointer lattice
IntegralSweep(dx, dy) ==
  \/ dx = 0 /\ dy = 0
  \/ LET steps == sweepSteps(dx, dy)
     IN  dx % (steps * PointerStep) = 0 /\ dy % (steps * PointerStep) = 0

\* Displacements of the desired position from the block's current position
Deltas ==
  { d \in { [x |-> i * PointerStep, y |-> j * PointerStep] :
             i \in (-MaxDelta)..MaxDelta, j \in (-MaxDelta)..MaxDelta } :
      IntegralSweep(d.x, d.y) }

\* A removal that leaves the list as it is
removeFromListNothing(list, b) == list

\* blocks.splice(blocks.indexOf(block), 1) when the block is in the list
removeFromList(list, b) == SelectSeq(list, LAMBDA e : e # b)

(***************************************************************************)
(* DragController.onDragStart, reached from the block's pointerdown        *)
(***************************************************************************)
\* GameScene.startTimer: timerStarted and the number of timer events after it
startTimer(started, events) ==
  IF started
  THEN [timerStarted |-> started, timerEvents |-> events]
  ELSE [timerStarted |-> TRUE, timerEvents |-> events + 1]

\* A drag-start that notifies whatever came before it
firstInteractionEveryTime(had) == TRUE

\* Does this drag-start call onFirstInteraction
firstInteraction(had) == ~had

\* onDragStart has no condition of its own: it runs for every pointerdown
\* that is delivered to the block
onDragStart(block, pointer) ==
  /\ hasHadFirstInteraction' = TRUE
  /\ timerStarted' = IF firstInteraction(hasHadFirstInteraction)
                     THEN startTimer(timerStarted, timerEvents).timerStarted
                     ELSE timerStarted
  /\ timerEvents' = IF firstInteraction(hasHadFirstInteraction)
                    THEN startTimer(timerStarted, timerEvents).timerEvents
                    ELSE timerEvents
  /\ activeBlock' = block
  \* block.startDrag(pointer)
  /\ isDragging' = [isDragging EXCEPT ![block] = TRUE]
  /\ dragOffset' = [dragOffset EXCEPT ![block] =
                       [x |-> pos[block].x - pointer.x, y |-> pos[block].y - pointer.y]]
  /\ cells' = clearEntity(cells, block)
  /\ lastEvent' = [handler |-> "onDragStart", block |-> block, outcome |-> "",
                   exit |-> 0,
                   callbacks |-> IF firstInteraction(hasHadFirstInteraction)
                                 THEN << "onFirstInteraction" >> ELSE << >>]
  /\ UNCHANGED << currentLevel, blocks, gridPosition, lastValidPosition, pos, disposal >>
  /\ UNCHANGED sceneVars

\* A pointerdown on a block that is fading out after its removal is not part
\* of this specification.
DragStart(block, pointer) ==
  /\ disposal[block] = "none"
  /\ onDragStart(block, pointer)
  /\ UNCHANGED probe

\* A listener that passes the event on for every block that is being dragged
handlesPointerOfAnyDragged(active, flags, block) == flags[block]

\* The test of the pointermove and pointerup listeners setupBlockDrag
\* registers for a block
handlesPointer(active, flags, block) == active = block /\ flags[block]

(***************************************************************************)
(* DragController.onDrag, reached from the scene's pointermove             *)
(***************************************************************************)
\* The pointermove listener of a block and onDrag
DragMove(block, pointer) ==
  /\ handlesPointer(activeBlock, isDragging, block)
  /\ disposal[block] # "destroyed"
  /\ LET \* block.updateDrag(validPos.x, validPos.y)
         updateDrag(desired, current, validPos) ==
           /\ pos' = [pos EXCEPT ![block] = validPos]
           /\ lastEvent' =
                [handler |-> "onDrag", block |-> block,
                 outcome |-> IF validPos # desired /\ validPos # current
                             THEN "stopped" ELSE "",
                 exit |-> 0, callbacks |-> << >>]
         onDrag(desiredX, desiredY, currentX, currentY) ==
           updateDrag([x |-> desiredX, y |-> desiredY], [x |-> currentX, y |-> currentY],
                      getValidDragPositionWithSliding(block, desiredX, desiredY,
                                                      currentX, currentY))
     IN  onDrag(pointer.x + dragOffset[block].x, pointer.y + dragOffset[block].y,
                pos[block].x, pos[block].y)
  /\ UNCHANGED << currentLevel, cells, blocks, gridPosition, lastValidPosition, isDragging,
                  dragOffset, disposal, activeBlock, hasHadFirstInteraction,
                  timerStarted, timerEvents >>
  /\ UNCHANGED sceneVars

Drag(block, pointer) ==
  /\ DragMove(block, pointer)
  /\ UNCHANGED probe

(***************************************************************************)
(* GameScene: the callbacks that end the play                              *)
(***************************************************************************)
\* The fields of GameScene that the callbacks read and write.  The move
\* counter is not kept: it is incremented by every onMoveComplete and every
\* onBlockRemoved that the events record.
Play ==
  [isGameActive |-> isGameActive, timerStarted |-> timerStarted,
   timerEventRemoved |-> timerEventRemoved, triggered |-> triggered]

\* GameScene.onLevelComplete; the timer event exists once the timer has started
onLevelComplete(play) ==
  [play EXCEPT !.isGameActive = FALSE,
               !.timerEventRemoved = play.timerEventRemoved \/ play.timerStarted,
               !.triggered = Append(play.triggered, "onLevelComplete")]

\* A time-up that leaves the play as it is
onTimeUpNothing(play) == play

\* GameScene.onTimeUp
onTimeUp(play) ==
  [play EXCEPT !.isGameActive = FALSE,
               !.timerEventRemoved = play.timerEventRemoved \/ play.timerStarted,
               !.triggered = Append(play.triggered, "onTimeUp")]

\* A removal that completes the level whatever is left
onBlockRemovedCompletesAlways(play, remaining) == onLevelComplete(play)

\* GameScene.onBlockRemoved, remaining being the block list after the splice
onBlockRemoved(play, remaining) ==
  IF Len(remaining) = 0 THEN onLevelComplete(play) ELSE play

\* The callback has left the fields of GameScene as play
becomes(play) ==
  /\ isGameActive' = play.isGameActive
  /\ timerEventRemoved' = play.timerEventRemoved
  /\ triggered' = play.triggered

(***************************************************************************)
(* DragController.onDragEnd, reached from the scene's pointerup            *)
(***************************************************************************)
DragEnd(block) ==
  /\ handlesPointer(activeBlock, isDragging, block)
  /\ disposal[block] # "destroyed"
  \* block.endDrag()
  /\ isDragging' = endDrag(isDragging, block)
  /\ activeBlock' = Null
  /\ LET \* block.removeBlock(), blocks.splice, onBlockRemoved; the grid
         \* position stays the one adopted for the exit check
         exits(currentGridPos, exitZone) ==
           /\ gridPosition' = [gridPosition EXCEPT ![block] = currentGridPos]
           /\ cells' = clearEntity(cells, block)
           /\ disposal' = [disposal EXCEPT ![block] = "tween"]
           /\ blocks' = removeFromList(blocks, block)
           /\ lastEvent' = [handler |-> "onDragEnd", block |-> block,
                            outcome |-> "removed", exit |-> exitZone,
                            callbacks |-> << "onBlockRemoved" >>]
           /\ becomes(onBlockRemoved(Play, removeFromList(blocks, block)))
           /\ UNCHANGED << pos, lastValidPosition, timer, scene >>
         \* block.gridPosition = savedGridPos, block.setGridPosition(target)
         setGridPosition(target, origin, outcome, callbacks) ==
           /\ gridPosition' = [gridPosition EXCEPT ![block] = target]
           /\ pos' = [pos EXCEPT ![block] =
                        gridToWorld(target.row + origin.row, target.col + origin.col)]
           /\ cells' = updateGridOccupancy(cells, block, target)
           /\ lastValidPosition' = [lastValidPosition EXCEPT ![block] = target]
           /\ lastEvent' = [handler |-> "onDragEnd", block |-> block,
                            outcome |-> outcome, exit |-> 0, callbacks |-> callbacks]
           /\ UNCHANGED << blocks, disposal >>
           /\ UNCHANGED sceneVars
         settles(validGridPos) ==
           IF validGridPos # << >>
           THEN setGridPosition(validGridPos[1], shapeOriginOffset[block], "snapped",
                                << "onMoveComplete" >>)
           ELSE setGridPosition(lastValidPosition[block], shapeOriginOffset[block],
                                "reverted", << >>)
         decides(currentGridPos, exitZone) ==
           IF exitZone # 0
           THEN exits(currentGridPos, exitZone)
           ELSE settles(findNearestValidGridPosition(block, pos[block].x, pos[block].y))
         onDragEnd(currentGridPos) ==
           decides(currentGridPos,
                   checkExitCondition(block, color[block], currentGridPos,
                                      LevelData.exits))
     IN  onDragEnd(worldToGrid(pos[block].x, pos[block].y))
  /\ UNCHANGED << currentLevel, dragOffset, hasHadFirstInteraction, timerStarted,
                  timerEvents, probe >>

(***************************************************************************)
(* Block.removeBlock's tween completes: Block.destroy                      *)
(***************************************************************************)
\* A destroyed game object is garbage: the handlers of the model are not
\* delivered to it (see the guards on disposal), so its position fields are
\* never read again and the model forgets them.
Forgotten == [row |-> 0, col |-> 0]

TweenComplete(block) ==
  /\ disposal[block] = "tween"
  /\ cells' = clearEntity(cells, block)
  /\ disposal' = [disposal EXCEPT ![block] = "destroyed"]
  /\ gridPosition' = [gridPosition EXCEPT ![block] = Forgotten]
  /\ lastValidPosition' = [lastValidPosition EXCEPT ![block] = Forgotten]
  /\ pos' = [pos EXCEPT ![block] = [x |-> 0, y |-> 0]]
  /\ dragOffset' = [dragOffset EXCEPT ![block] = [x |-> 0, y |-> 0]]
  /\ lastEvent' = [handler |-> "destroy", block |-> block, outcome |-> "",
                   exit |-> 0, callbacks |-> << >>]
  /\ UNCHANGED << currentLevel, blocks, isDragging, activeBlock, hasHadFirstInteraction,
                  timerStarted, timerEvents, probe >>
  /\ UNCHANGED sceneVars

(***************************************************************************)
(* Specification of the game                                               *)
(***************************************************************************)
PointerDown ==
  \E block \in BlockIds : \E g \in GrabPoints :
    DragStart(block, [x |-> pos[block].x + g.x, y |-> pos[block].y + g.y])

PointerMove ==
  \E block \in BlockIds : \E d \in Deltas :
    Drag(block, [x |-> pos[block].x + d.x - dragOffset[block].x,
                 y |-> pos[block].y + d.y - dragOffset[block].y])

PointerUp == \E block \in BlockIds : DragEnd(block)

Disposed == \E block \in BlockIds : TweenComplete(block)

Next == PointerDown \/ PointerMove \/ PointerUp \/ Disposed

Spec == Init /\ [][Next]_vars

(***************************************************************************)
(* The game played on the level with the blue exit on the left             *)
(***************************************************************************)
InitScenarioA ==
  /\ currentLevel = 2
  /\ create

SpecScenarioA == InitScenarioA /\ [][Next]_vars

(***************************************************************************)
(* The level with the two one-cell blocks side by side, played with the    *)
(* pointer going down on the first block only                              *)
(***************************************************************************)
InitScenarioB ==
  /\ currentLevel = 3
  /\ create

PointerDownOnFirst ==
  \E g \in GrabPoints :
    DragStart("block-0", [x |-> pos["block-0"].x + g.x, y |-> pos["block-0"].y + g.y])

NextScenarioB == PointerDownOnFirst \/ PointerMove \/ PointerUp \/ Disposed

SpecScenarioB == InitScenarioB /\ [][NextScenarioB]_vars

(***************************************************************************)
(* The level with the two one-cell blocks played on the first block, with  *)
(* the pointer going down on removed blocks as well: a block stays an      *)
(* interactive game object until the tween of removeBlock is over and      *)
(* destroy has run                                                         *)
(***************************************************************************)
InitFade ==
  /\ currentLevel = 3
  /\ create

FadeTaps == IF probe.op = "fade" THEN probe.taps ELSE 0

\* pointerdown on a block whose removal tween is running
DragStartFading(block, pointer) ==
  /\ disposal[block] = "tween"
  /\ FadeTaps < MaxFadeTaps
  /\ onDragStart(block, pointer)
  /\ probe' = [op |-> "fade", taps |-> FadeTaps + 1]

PointerDownFading ==
  \E block \in BlockIds : \E g \in GrabPoints :
    DragStartFading(block, [x |-> pos[block].x + g.x, y |-> pos[block].y + g.y])

NextFade == PointerDownOnFirst \/ PointerDownFading \/ PointerMove \/ PointerUp \/ Disposed

SpecFade == InitFade /\ [][NextFade]_vars

(***************************************************************************)
(* The level with one block played against the countdown: the timer event  *)
(* of startTimer, and the delayed calls of onLevelComplete and onTimeUp    *)
(* that start the next scene                                               *)
(***************************************************************************)
InitPlay ==
  /\ currentLevel = 4
  /\ create

\* GameScene.onTimerTick, called by the timer event while it exists; isPaused
\* is never set
Tick ==
  /\ scene = "GameScene"
  /\ timerStarted
  /\ ~timerEventRemoved
  /\ IF ~isGameActive
     THEN UNCHANGED << timer, isGameActive, timerEventRemoved, triggered >>
     ELSE /\ timer' = timer - 1
          /\ IF timer - 1 <= 0
             THEN becomes(onTimeUp(Play))
             ELSE UNCHANGED << isGameActive, timerEventRemoved, triggered >>
  /\ lastEvent' = [handler |-> "onTimerTick", block |-> Null, outcome |-> "",
                   exit |-> 0, callbacks |-> << >>]
  /\ UNCHANGED << currentLevel, cells, blocks, gridPosition, lastValidPosition, pos,
                  isDragging, dragOffset, disposal, activeBlock, hasHadFirstInteraction,
                  timerStarted, timerEvents, scene, probe >>

\* The first delayed call comes due: this.scene.start(...), which shuts
\* GameScene down
SceneStart ==
  /\ scene = "GameScene"
  /\ triggered # << >>
  /\ scene' = IF Head(triggered) = "onLevelComplete" THEN "VictoryScene" ELSE "DefeatScene"
  /\ lastEvent' = [handler |-> "delayedCall", block |-> Null, outcome |-> "",
                   exit |-> 0, callbacks |-> << >>]
  /\ UNCHANGED << currentLevel, cells, blocks, gridPosition, lastValidPosition, pos,
                  isDragging, dragOffset, disposal, activeBlock, hasHadFirstInteraction,
                  timerStarted, timerEvents, timer, isGameActive, timerEventRemoved,
                  triggered, probe >>

\* The pointer listeners and the removal tweens live as long as the scene
NextPlay ==
  \/ scene = "GameScene" /\ PointerDown
  \/ scene = "GameScene" /\ PointerMove
  \/ scene = "GameScene" /\ PointerUp
  \/ scene = "GameScene" /\ Disposed
  \/ Tick
  \/ SceneStart

SpecPlay == InitPlay /\ [][NextPlay]_vars

(***************************************************************************)
(* The first drag of a play of the level with the two one-cell blocks,     *)
(* with the pointer positions kept: where the pointer went down, and where *)
(* it is now                                                               *)
(***************************************************************************)
PointerDownAt ==
  \E g \in GrabPoints :
    /\ probe = NoProbe
    /\ disposal["block-0"] = "none"
    /\ onDragStart("block-0", [x |-> pos["block-0"].x + g.x, y |-> pos["block-0"].y + g.y])
    /\ probe' = [op |-> "pointer",
                 down |-> [x |-> pos["block-0"].x + g.x, y |-> pos["block-0"].y + g.y],
                 at |-> [x |-> pos["block-0"].x + g.x, y |-> pos["block-0"].y + g.y]]

PointerMoveTo ==
  \E block \in BlockIds : \E d \in Deltas :
    /\ probe.op = "pointer"
    /\ DragMove(block, [x |-> pos[block].x + d.x - dragOffset[block].x,
                        y |-> pos[block].y + d.y - dragOffset[block].y])
    /\ probe' = [probe EXCEPT !.at = [x |-> pos[block].x + d.x - dragOffset[block].x,
                                      y |-> pos[block].y + d.y - dragOffset[block].y]]

NextPointer == PointerDownAt \/ PointerMoveTo \/ PointerUp \/ Disposed

SpecPointer == InitScenarioB /\ [][NextPointer]_vars

(***************************************************************************)
(* Specification of checkExitCondition on its own: the function is called  *)
(* once on the loaded level's grid, with any block, any grid position on   *)
(* the board or one cell outside it, and any list of exits of the pool.    *)
(***************************************************************************)
ExitPool ==
  { [color |-> c, side |-> e.side, startCell |-> e.startCell, endCell |-> e.endCell] :
      c \in { <<"B","l","u","e">>, <<"R","E","D">> },
      e \in { [side |-> "top", startCell |-> 0, endCell |-> 1],
              [side |-> "top", startCell |-> 0, endCell |-> 0],
              [side |-> "bottom", startCell |-> 0, endCell |-> 1],
              [side |-> "left", startCell |-> 0, endCell |-> 0],
              [side |-> "right", startCell |-> 0, endCell |-> 0],
              [side |-> "right", startCell |-> 0, endCell |-> 1] } }

ExitLists == UNION { [1..n -> ExitPool] : n \in 0..MaxExits }

ProbePositions == { O(r, c) : r \in (-1)..rows, c \in (-1)..cols }

ProbeExit ==
  /\ probe = NoProbe
  /\ \E block \in BlockIds : \E gp \in ProbePositions : \E exitZones \in ExitLists :
       probe' = [op |-> "checkExitCondition", block |-> block, gridPosition |-> gp,
                 exitZones |-> exitZones,
                 result |-> checkExitCondition(block, color[block], gp, exitZones)]
  /\ UNCHANGED gameVars

NextProbe == ProbeExit

SpecProbe == Init /\ [][NextProbe]_vars

(***************************************************************************)
(* Specification of isValidGridPosition and findNearestValidGridPosition   *)
(* on their own: a level is loaded with its blocks at any start positions  *)
(* that are on the board, off the obstacles and disjoint, at most one      *)
(* block is picked up, and one of the two functions is called once.        *)
(***************************************************************************)
\* The grid positions at which block b lies on the board and off the obstacles
Placements(b) ==
  { p \in Cells :
      \A c \in getOccupiedCells(b, p) : c \in Cells /\ ~isObstacle(c.row, c.col) }

InitSearch ==
  /\ currentLevel = 1
  /\ \E gp \in [BlockIds -> Cells] : \E lifted \in BlockIds \cup {Null} :
       /\ \A b \in BlockIds : gp[b] \in Placements(b)
       /\ \A a, b \in BlockIds :
            a # b => getOccupiedCells(a, gp[a]) \cap getOccupiedCells(b, gp[b]) = {}
       /\ gridPosition = gp
       /\ lastValidPosition = gp
       /\ pos = [b \in BlockIds |->
                   gridToWorld(gp[b].row + shapeOriginOffset[b].row,
                               gp[b].col + shapeOriginOffset[b].col)]
       \* the constructors, then startDrag of the block picked up
       /\ cells = [c \in Cells |->
                     IF \E b \in BlockIds \ {lifted} : c \in getOccupiedCells(b, gp[b])
                     THEN CHOOSE b \in BlockIds \ {lifted} :
                            c \in getOccupiedCells(b, gp[b])
                     ELSE Null]
       /\ isDragging = [b \in BlockIds |-> b = lifted]
       /\ activeBlock = lifted
       /\ hasHadFirstInteraction = (lifted # Null)
       /\ timerStarted = (lifted # Null)
       /\ timerEvents = IF lifted # Null THEN 1 ELSE 0
       /\ timer = LevelData.timeLimit
       /\ isGameActive = TRUE
       /\ timerEventRemoved = FALSE
       /\ triggered = << >>
       /\ scene = "GameScene"
       /\ lastEvent = IF lifted = Null
                      THEN NoEvent
                      ELSE [handler |-> "onDragStart", block |-> lifted, outcome |-> "",
                            exit |-> 0, callbacks |-> << "onFirstInteraction" >>]
  /\ blocks = BlockIdOf
  /\ dragOffset = [b \in BlockIds |-> [x |-> 0, y |-> 0]]
  /\ disposal = [b \in BlockIds |-> "none"]
  /\ probe = NoProbe

SearchRows == (-SearchReach)..(rows - 1 + SearchReach)
SearchCols == (-SearchReach)..(cols - 1 + SearchReach)

\* World coordinates on the pointer lattice through the playable corner
SearchXs ==
  { getPlayableBounds.left + PointerStep * i :
      i \in (-((SearchReach * cellSize) \div PointerStep))
              ..(((cols + SearchReach) * cellSize) \div PointerStep) }
SearchYs ==
  { getPlayableBounds.top + PointerStep * i :
      i \in (-((SearchReach * cellSize) \div PointerStep))
              ..(((rows + SearchReach) * cellSize) \div PointerStep) }

ProbeValid ==
  /\ probe = NoProbe
  /\ \E block \in BlockIds : \E row \in SearchRows : \E col \in SearchCols :
       probe' = [op |-> "isValidGridPosition", block |-> block, row |-> row,
                 col |-> col, result |-> isValidGridPosition(block, row, col)]
  /\ UNCHANGED gameVars

ProbeNearest ==
  /\ probe = NoProbe
  /\ \E block \in BlockIds : \E worldX \in SearchXs : \E worldY \in SearchYs :
       probe' = [op |-> "findNearestValidGridPosition", block |-> block,
                 worldX |-> worldX, worldY |-> worldY,
                 result |-> findNearestValidGridPosition(block, worldX, worldY)]
  /\ UNCHANGED gameVars

NextSearch == ProbeValid \/ ProbeNearest

SpecSearch == InitSearch /\ [][NextSearch]_vars

(***************************************************************************)
(* The two legality predicates asked about the same grid position: every   *)
(* block stands on its grid position, one of them possibly picked up       *)
(***************************************************************************)
ProbeLegality ==
  /\ probe = NoProbe
  /\ \E block \in BlockIds : \E row \in SearchRows : \E col \in SearchCols :
       probe' = [op |-> "legality", block |-> block, row |-> row, col |-> col,
                 isValidGridPosition |-> isValidGridPosition(block, row, col),
                 canBlockMoveTo |->
                   canBlockMoveTo(block, gridToWorld(row, col).x, gridToWorld(row, col).y)]
  /\ UNCHANGED gameVars

NextLegality == ProbeLegality

SpecLegality == InitSearch /\ [][NextLegality]_vars

(***************************************************************************)
(* CollisionDetector.getValidDragPositionWithSliding as onDrag asks for    *)
(* it: the swept diagonal move, the binary search that tightens a blocked  *)
(* sweep, the remaining horizontal-only and vertical-only moves from the   *)
(* tightened stop, and the choice of an axis with the other axis added     *)
(* back.  The resolution is called once for a block that is picked up, at  *)
(* a position the block can hold; each of its four moves is swept, then    *)
(* refined, in steps of their own.                                         *)
(***************************************************************************)
\* A binary search that answers with the first invalid sample
bisectToFirstInvalid(block, a, b, m, lo, hi) == b

\* The binary search between the last valid sample a and the first invalid
\* sample b of a sweep, on the m + 1 points a + (b - a) * j / m: lo is valid,
\* hi is not, and the search ends when they are one pixel apart.
RECURSIVE bisect(_, _, _, _, _, _)
bisect(block, a, b, m, lo, hi) ==
  LET point(j) == [x |-> a.x + ((b.x - a.x) * j) \div m,
                   y |-> a.y + ((b.y - a.y) * j) \div m]
      narrow(mid, ok) ==
        bisect(block, a, b, m, IF ok THEN mid ELSE lo, IF ok THEN hi ELSE mid)
      halve(mid, q) == narrow(mid, canBlockMoveTo(block, q.x, q.y))
  IN  IF hi - lo <= 1
      THEN point(lo)
      ELSE halve((lo + hi) \div 2, point((lo + hi) \div 2))

\* A swept move from one position to another: the last sample the block can
\* hold and the sample at which the sweep was blocked; both are the end of
\* the sweep when nothing blocks it.
sweep(block, from, to) ==
  [lastValid |-> getValidDragPosition(block, to.x, to.y, from.x, from.y),
   firstInvalid |->
     IF from = to
     THEN to
     ELSE sweepFromToCollision(block, from.x, from.y, to.x - from.x, to.y - from.y,
            sweepSteps(to.x - from.x, to.y - from.y), 1, from)]

\* The stopping point of a sweep, tightened against the obstruction
refine(block, swept) ==
  IF swept.lastValid = swept.firstInvalid
  THEN swept.lastValid
  ELSE bisect(block, swept.lastValid, swept.firstInvalid,
              Max(Abs(swept.firstInvalid.x - swept.lastValid.x),
                  Abs(swept.firstInvalid.y - swept.lastValid.y)),
              0,
              Max(Abs(swept.firstInvalid.x - swept.lastValid.x),
                  Abs(swept.firstInvalid.y - swept.lastValid.y)))

\* Manhattan displacement of p from the position the resolution started at
manhattan(p, current) == Abs(p.x - current.x) + Abs(p.y - current.y)

\* The axis results that may be chosen: the one with the strictly greater
\* displacement, either of them when neither is strictly greater
chooseAxis(h, v, current) ==
  IF manhattan(h, current) > manhattan(v, current)
  THEN { "horizontal" }
  ELSE IF manhattan(v, current) > manhattan(h, current)
       THEN { "vertical" }
       ELSE { "horizontal", "vertical" }

\* Where the other axis is added back to the chosen result
addBackTarget(axis, chosen, desired) ==
  IF axis = "horizontal"
  THEN [x |-> chosen.x, y |-> desired.y]
  ELSE [x |-> desired.x, y |-> chosen.y]

NoPoint == [x |-> 0, y |-> 0]
NoSweep == [lastValid |-> NoPoint, firstInvalid |-> NoPoint]

\* How far from its position a picked-up block is when the resolution is called
SlideOffsets ==
  { [x |-> i * PointerStep, y |-> j * PointerStep] : i \in (-1)..1, j \in (-1)..1 }

\* The resolution is at the given phase of the given move
SlideAt(leg, phase) ==
  /\ probe.op = "getValidDragPositionWithSliding"
  /\ probe.leg = leg
  /\ probe.phase = phase

\* The call: stage 1 is the move from the current to the desired position
SlideCall ==
  /\ probe = NoProbe
  /\ \E block \in BlockIds : \E off \in SlideOffsets : \E d \in Deltas :
       /\ isDragging[block]
       /\ canBlockMoveTo(block, pos[block].x + off.x, pos[block].y + off.y)
       /\ probe' =
            [op |-> "getValidDragPositionWithSliding",
             leg |-> "diagonal", phase |-> "sweep",
             block |-> block,
             current |-> [x |-> pos[block].x + off.x, y |-> pos[block].y + off.y],
             desired |-> [x |-> pos[block].x + off.x + d.x,
                          y |-> pos[block].y + off.y + d.y],
             from |-> [x |-> pos[block].x + off.x, y |-> pos[block].y + off.y],
             to |-> [x |-> pos[block].x + off.x + d.x,
                     y |-> pos[block].y + off.y + d.y],
             swept |-> NoSweep, reached |-> NoPoint,
             stop |-> NoPoint, h |-> NoPoint, v |-> NoPoint, axis |-> "",
             result |-> NoPoint]
  /\ UNCHANGED gameVars

\* The swept interpolation of the move at hand
SlideSweep ==
  /\ probe.op = "getValidDragPositionWithSliding"
  /\ probe.phase = "sweep"
  /\ probe' = [probe EXCEPT !.phase = "refine",
                            !.swept = sweep(probe.block, probe.from, probe.to)]
  /\ UNCHANGED gameVars

\* The binary search of the move at hand
SlideRefine ==
  /\ probe.op = "getValidDragPositionWithSliding"
  /\ probe.phase = "refine"
  /\ probe' = [probe EXCEPT !.phase = "moved",
                            !.reached = refine(probe.block, probe.swept)]
  /\ UNCHANGED gameVars

\* Stages 1 and 2 are over: the desired position is returned when the move
\* reached it; else stage 3 begins with the remaining horizontal move from
\* the tightened stop
SlideStopped ==
  /\ SlideAt("diagonal", "moved")
  /\ probe' =
       IF probe.reached = probe.desired
       THEN [probe EXCEPT !.leg = "done", !.phase = "done",
                          !.stop = probe.reached, !.result = probe.reached]
       ELSE [probe EXCEPT !.leg = "horizontal", !.phase = "sweep",
                          !.stop = probe.reached,
                          !.from = probe.reached,
                          !.to = [x |-> probe.desired.x, y |-> probe.reached.y]]
  /\ UNCHANGED gameVars

\* Stage 3 goes on with the remaining vertical move from the tightened stop
SlideHorizontalDone ==
  /\ SlideAt("horizontal", "moved")
  /\ probe' = [probe EXCEPT !.leg = "vertical", !.phase = "sweep",
                            !.h = probe.reached,
                            !.from = probe.stop,
                            !.to = [x |-> probe.stop.x, y |-> probe.desired.y]]
  /\ UNCHANGED gameVars

\* Stage 4: an axis is chosen and the other axis is added back from its result
SlideChoose ==
  /\ SlideAt("vertical", "moved")
  /\ \E axis \in chooseAxis(probe.h, probe.reached, probe.current) :
       probe' =
         [probe EXCEPT
            !.leg = "addBack", !.phase = "sweep",
            !.v = probe.reached,
            !.axis = axis,
            !.from = IF axis = "horizontal" THEN probe.h ELSE probe.reached,
            !.to = addBackTarget(axis,
                                 IF axis = "horizontal" THEN probe.h ELSE probe.reached,
                                 probe.desired)]
  /\ UNCHANGED gameVars

\* The position the added-back move reached is returned
SlideReturn ==
  /\ SlideAt("addBack", "moved")
  /\ probe' = [probe EXCEPT !.leg = "done", !.phase = "done",
                            !.result = probe.reached]
  /\ UNCHANGED gameVars

NextSliding ==
  \/ SlideCall
  \/ SlideSweep
  \/ SlideRefine
  \/ SlideStopped
  \/ SlideHorizontalDone
  \/ SlideChoose
  \/ SlideReturn

SpecSliding == InitSearch /\ [][NextSliding]_vars

(***************************************************************************)
(* Specification of the construction of the blocks: GameScene.create       *)
(* constructs the blocks of the level one after the other, and the level   *)
(* may configure any start position on the board or one cell outside it.   *)
(***************************************************************************)
StartPositions == { O(r, c) : r \in (-1)..rows, c \in (-1)..cols }

\* The grid is constructed, no block is; the fields of a block that is not
\* constructed yet are not read.
InitConstruct ==
  /\ currentLevel = 1
  /\ cells = [c \in Cells |-> Null]
  /\ blocks = << >>
  /\ gridPosition = [b \in BlockIds |-> O(0, 0)]
  /\ lastValidPosition = [b \in BlockIds |-> O(0, 0)]
  /\ pos = [b \in BlockIds |-> gridToWorld(0, 0)]
  /\ isDragging = [b \in BlockIds |-> FALSE]
  /\ dragOffset = [b \in BlockIds |-> [x |-> 0, y |-> 0]]
  /\ disposal = [b \in BlockIds |-> "none"]
  /\ activeBlock = Null
  /\ hasHadFirstInteraction = FALSE
  /\ timerStarted = FALSE
  /\ timerEvents = 0
  /\ timer = LevelData.timeLimit
  /\ isGameActive = TRUE
  /\ timerEventRemoved = FALSE
  /\ triggered = << >>
  /\ scene = "GameScene"
  /\ lastEvent = NoEvent
  /\ probe = NoProbe

\* new Block({ id: block, gridPosition: gp, ... }) and this.blocks.push(block)
NewBlock(block, gp) ==
  /\ gridPosition' = [gridPosition EXCEPT ![block] = gp]
  /\ lastValidPosition' = [lastValidPosition EXCEPT ![block] = gp]
  /\ pos' = [pos EXCEPT ![block] =
               gridToWorld(gp.row + shapeOriginOffset[block].row,
                           gp.col + shapeOriginOffset[block].col)]
  /\ cells' = updateGridOccupancy(cells, block, gp)
  /\ blocks' = Append(blocks, block)
  /\ lastEvent' = [handler |-> "constructor", block |-> block,
                   outcome |-> "constructed", exit |-> 0, callbacks |-> << >>]
  /\ UNCHANGED << currentLevel, isDragging, dragOffset, disposal, activeBlock,
                  hasHadFirstInteraction, timerStarted, timerEvents, probe >>
  /\ UNCHANGED sceneVars

\* One round of levelData.blocks.forEach
CreateBlock ==
  /\ Len(blocks) < Len(BlockIdOf)
  /\ \E gp \in StartPositions : NewBlock(BlockIdOf[Len(blocks) + 1], gp)

NextConstruct == CreateBlock

SpecConstruct == InitConstruct /\ [][NextConstruct]_vars

(***************************************************************************)
(* Specification of Block.setGridPosition on its own: on the loaded level, *)
(* the method is called again and again, for any block and any cell on     *)
(* the board or one cell outside it.                                       *)
(***************************************************************************)
\* block.setGridPosition(row, col); the event says whether the call repeats
\* the call before it
SetGridPosition(block, row, col) ==
  /\ gridPosition' = [gridPosition EXCEPT ![block] = O(row, col)]
  /\ pos' = [pos EXCEPT ![block] =
               gridToWorld(row + shapeOriginOffset[block].row,
                           col + shapeOriginOffset[block].col)]
  /\ cells' = updateGridOccupancy(cells, block, O(row, col))
  /\ lastValidPosition' = [lastValidPosition EXCEPT ![block] = O(row, col)]
  /\ lastEvent' = [handler |-> "setGridPosition", block |-> block,
                   outcome |-> IF /\ lastEvent.handler = "setGridPosition"
                                  /\ lastEvent.block = block
                                  /\ gridPosition[block] = O(row, col)
                               THEN "repeated" ELSE "",
                   exit |-> 0, callbacks |-> << >>]
  /\ UNCHANGED << currentLevel, blocks, isDragging, dragOffset, disposal, activeBlock,
                  hasHadFirstInteraction, timerStarted, timerEvents, probe >>
  /\ UNCHANGED sceneVars

CallSetGridPosition ==
  \E block \in BlockIds : \E gp \in StartPositions :
    SetGridPosition(block, gp.row, gp.col)

NextSetGridPosition == CallSetGridPosition

SpecSetGridPosition == Init /\ [][NextSetGridPosition]_vars

(***************************************************************************)
(* Specification of Block.startDrag, updateDrag and endDrag on their own:  *)
(* on the loaded level the three methods are called in any order, for any  *)
(* block, with the pointer on the block and any position of DragTargets.   *)
(***************************************************************************)
\* The positions handed to updateDrag
DragTargets ==
  { [x |-> getPlayableBounds.left + i * PointerStep,
     y |-> getPlayableBounds.top + j * PointerStep] :
      i \in 0..MaxDelta, j \in 0..MaxDelta }

\* block.startDrag(pointer)
StartDrag(block, pointer) ==
  /\ isDragging' = [isDragging EXCEPT ![block] = TRUE]
  /\ dragOffset' = [dragOffset EXCEPT ![block] =
                       [x |-> pos[block].x - pointer.x, y |-> pos[block].y - pointer.y]]
  /\ cells' = clearEntity(cells, block)
  /\ lastEvent' = [handler |-> "startDrag", block |-> block, outcome |-> "",
                   exit |-> 0, callbacks |-> << >>]
  /\ UNCHANGED << currentLevel, blocks, gridPosition, lastValidPosition, pos, disposal,
                  activeBlock, hasHadFirstInteraction, timerStarted, timerEvents,
                  probe >>
  /\ UNCHANGED sceneVars

\* block.updateDrag(x, y)
UpdateDrag(block, x, y) ==
  /\ pos' = IF isDragging[block]
            THEN [pos EXCEPT ![block] = [x |-> x, y |-> y]]
            ELSE pos
  /\ lastEvent' = [handler |-> "updateDrag", block |-> block,
                   outcome |-> IF isDragging[block] THEN "moved" ELSE "",
                   exit |-> 0, callbacks |-> << >>]
  /\ UNCHANGED << currentLevel, cells, blocks, gridPosition, lastValidPosition,
                  isDragging, dragOffset, disposal, activeBlock,
                  hasHadFirstInteraction, timerStarted, timerEvents, probe >>
  /\ UNCHANGED sceneVars

\* block.endDrag()
EndDrag(block) ==
  /\ isDragging' = endDrag(isDragging, block)
  /\ lastEvent' = [handler |-> "endDrag", block |-> block, outcome |-> "",
                   exit |-> 0, callbacks |-> << >>]
  /\ UNCHANGED << currentLevel, cells, blocks, gridPosition, lastValidPosition, pos,
                  dragOffset, disposal, activeBlock, hasHadFirstInteraction,
                  timerStarted, timerEvents, probe >>
  /\ UNCHANGED sceneVars

CallStartDrag ==
  \E block \in BlockIds : \E g \in GrabPoints :
    StartDrag(block, [x |-> pos[block].x + g.x, y |-> pos[block].y + g.y])

CallUpdateDrag ==
  \E block \in BlockIds : \E target \in DragTargets :
    UpdateDrag(block, target.x, target.y)

CallEndDrag == \E block \in BlockIds : EndDrag(block)

NextBlockDrag == CallStartDrag \/ CallUpdateDrag \/ CallEndDrag

SpecBlockDrag == Init /\ [][NextBlockDrag]_vars

(***************************************************************************)
(* Specification of the loading of the levels the game ships with:         *)
(* GameScene.create is run for any of them, an exit zone, a block and a    *)
(* cell of a block at a time.  ShippedLevels is the array LEVELS of        *)
(* levels.ts; the grid of a level has the size the level gives.            *)
(***************************************************************************)
ShippedLevels ==
  <<
     [ id        |-> 1,
       gridSize  |-> [rows |-> 6, cols |-> 6],
       timeLimit |-> 120,
       blocks    |-> <<
                       [color |-> <<"b","l","u","e">>, shape |-> "1x2",
                        startPosition |-> O(2, 1)],
                       [color |-> <<"r","e","d">>, shape |-> "1x2",
                        startPosition |-> O(3, 4)],
                       [color |-> <<"y","e","l","l","o","w">>, shape |-> "Cross",
                        startPosition |-> O(0, 2)] >>,
       obstacles |-> {  },
       exits     |-> <<
                       [color |-> <<"b","l","u","e">>, side |-> "left",
                        startCell |-> 2, endCell |-> 2],
                       [color |-> <<"r","e","d">>, side |-> "right",
                        startCell |-> 3, endCell |-> 3] >> ],
     [ id        |-> 2,
       gridSize  |-> [rows |-> 7, cols |-> 7],
       timeLimit |-> 150,
       blocks    |-> <<
                       [color |-> <<"b","l","u","e">>, shape |-> "2x2",
                        startPosition |-> O(1, 1)],
                       [color |-> <<"r","e","d">>, shape |-> "1x3",
                        startPosition |-> O(4, 2)],
                       [color |-> <<"g","r","e","e","n">>, shape |-> "1x2",
                        startPosition |-> O(2, 5)] >>,
       obstacles |-> { O(3, 3) },
       exits     |-> <<
                       [color |-> <<"b","l","u","e">>, side |-> "top",
                        startCell |-> 1, endCell |-> 2],
                       [color |-> <<"r","e","d">>, side |-> "bottom",
                        startCell |-> 2, endCell |-> 4],
                       [color |-> <<"g","r","e","e","n">>, side |-> "right",
                        startCell |-> 2, endCell |-> 3] >> ],
     [ id        |-> 3,
       gridSize  |-> [rows |-> 8, cols |-> 8],
       timeLimit |-> 180,
       blocks    |-> <<
                       [color |-> <<"b","l","u","e">>, shape |-> "L_90",
                        startPosition |-> O(1, 1)],
                       [color |-> <<"r","e","d">>, shape |-> "L_0",
                        startPosition |-> O(5, 5)],
                       [color |-> <<"y","e","l","l","o","w">>, shape |-> "2x2",
                        startPosition |-> O(3, 2)],
                       [color |-> <<"g","r","e","e","n">>, shape |-> "1x3",
                        startPosition |-> O(1, 5)] >>,
       obstacles |-> { O(4, 4), O(3, 5) },
       exits     |-> <<
                       [color |-> <<"b","l","u","e">>, side |-> "left",
                        startCell |-> 1, endCell |-> 1],
                       [color |-> <<"r","e","d">>, side |-> "bottom",
                        startCell |-> 5, endCell |-> 6],
                       [color |-> <<"y","e","l","l","o","w">>, side |-> "top",
                        startCell |-> 2, endCell |-> 3],
                       [color |-> <<"g","r","e","e","n">>, side |-> "right",
                        startCell |-> 1, endCell |-> 3] >> ],
     [ id        |-> 4,
       gridSize  |-> [rows |-> 8, cols |-> 8],
       timeLimit |-> 200,
       blocks    |-> <<
                       [color |-> <<"p","u","r","p","l","e">>, shape |-> "T_0",
                        startPosition |-> O(1, 2)],
                       [color |-> <<"o","r","a","n","g","e">>, shape |-> "T_90",
                        startPosition |-> O(5, 1)],
                       [color |-> <<"c","y","a","n">>, shape |-> "2x3",
                        startPosition |-> O(1, 5)],
                       [color |-> <<"p","i","n","k">>, shape |-> "L_180",
                        startPosition |-> O(4, 5)],
                       [color |-> <<"y","e","l","l","o","w">>, shape |-> "1x2",
                        startPosition |-> O(3, 3)] >>,
       obstacles |-> { O(2, 4), O(4, 2), O(6, 6) },
       exits     |-> <<
                       [color |-> <<"p","u","r","p","l","e">>, side |-> "top",
                        startCell |-> 2, endCell |-> 4],
                       [color |-> <<"o","r","a","n","g","e">>, side |-> "left",
                        startCell |-> 5, endCell |-> 6],
                       [color |-> <<"c","y","a","n">>, side |-> "right",
                        startCell |-> 1, endCell |-> 3],
                       [color |-> <<"p","i","n","k">>, side |-> "bottom",
                        startCell |-> 5, endCell |-> 6],
                       [color |-> <<"y","e","l","l","o","w">>, side |-> "left",
                        startCell |-> 3, endCell |-> 4] >> ],
     [ id        |-> 5,
       gridSize  |-> [rows |-> 9, cols |-> 9],
       timeLimit |-> 240,
       blocks    |-> <<
                       [color |-> <<"r","e","d">>, shape |-> "Cross",
                        startPosition |-> O(3, 3)],
                       [color |-> <<"b","l","u","e">>, shape |-> "L_270",
                        startPosition |-> O(1, 1)],
                       [color |-> <<"g","r","e","e","n">>, shape |-> "T_180",
                        startPosition |-> O(6, 1)],
                       [color |-> <<"y","e","l","l","o","w">>, shape |-> "2x2",
                        startPosition |-> O(1, 6)],
                       [color |-> <<"p","u","r","p","l","e">>, shape |-> "L_90",
                        startPosition |-> O(6, 6)],
                       [color |-> <<"o","r","a","n","g","e">>, shape |-> "1x3",
                        startPosition |-> O(4, 7)] >>,
       obstacles |-> { O(2, 5), O(4, 4), O(5, 2), O(7, 7) },
       exits     |-> <<
                       [color |-> <<"r","e","d">>, side |-> "top",
                        startCell |-> 3, endCell |-> 5],
                       [color |-> <<"b","l","u","e">>, side |-> "left",
                        startCell |-> 1, endCell |-> 2],
                       [color |-> <<"g","r","e","e","n">>, side |-> "bottom",
                        startCell |-> 1, endCell |-> 3],
                       [color |-> <<"y","e","l","l","o","w">>, side |-> "right",
                        startCell |-> 1, endCell |-> 2],
                       [color |-> <<"p","u","r","p","l","e">>, side |-> "bottom",
                        startCell |-> 6, endCell |-> 8],
                       [color |-> <<"o","r","a","n","g","e">>, side |-> "right",
                        startCell |-> 4, endCell |-> 6] >> ] >>

\* Block.getOccupiedCells of a block of the given shape at grid position gp
occupiedCellsOf(s, gp) ==
  LET cellsFrom(origin, offsets) ==
        [i \in DOMAIN offsets |->
           O(gp.row + offsets[i].row + origin.row, gp.col + offsets[i].col + origin.col)]
  IN  cellsFrom(originOffsetOf(s), normalizedOffsetsOf(s))

\* The cells, in the order of the shape's offsets, of block i of a level
levelBlockCells(level, i) ==
  occupiedCellsOf(level.blocks[i].shape, level.blocks[i].startPosition)

\* Grid.isInBounds on the grid of a level
levelInBounds(level, cell) ==
  /\ cell.row >= 0 /\ cell.row < level.gridSize.rows
  /\ cell.col >= 0 /\ cell.col < level.gridSize.cols

\* create(data) with data.level = id, up to the construction of the grid
LoadLevel ==
  /\ probe = NoProbe
  /\ \E id \in DOMAIN ShippedLevels :
       probe' = [op |-> "create", level |-> id, exitZones |-> 0, built |-> 0,
                 constructing |-> 0, written |-> 0,
                 table |-> [c \in { O(r, c) : r \in 0..(ShippedLevels[id].gridSize.rows - 1),
                                              c \in 0..(ShippedLevels[id].gridSize.cols - 1) }
                            |-> 0]]
  /\ UNCHANGED gameVars

\* One round of levelData.exits.forEach
AddExitZone ==
  /\ probe.op = "create"
  /\ probe.exitZones < Len(ShippedLevels[probe.level].exits)
  /\ probe' = [probe EXCEPT !.exitZones = probe.exitZones + 1]
  /\ UNCHANGED gameVars

\* new Block(...) up to updateGridOccupancy: the block holds no cell yet, so
\* clearEntity finds nothing to clear
ConstructBlock ==
  /\ probe.op = "create"
  /\ probe.exitZones = Len(ShippedLevels[probe.level].exits)
  /\ probe.constructing = 0
  /\ probe.built < Len(ShippedLevels[probe.level].blocks)
  /\ probe' = [probe EXCEPT !.constructing = probe.built + 1, !.written = 0]
  /\ UNCHANGED gameVars

\* One round of getOccupiedCells().forEach: grid.setCellOccupied(row, col, this)
OccupyCell ==
  /\ probe.op = "create"
  /\ probe.constructing # 0
  /\ probe.written <
       Len(levelBlockCells(ShippedLevels[probe.level], probe.constructing))
  /\ probe' =
       [probe EXCEPT
          !.written = probe.written + 1,
          !.table =
             [c \in DOMAIN probe.table |->
                IF c = levelBlockCells(ShippedLevels[probe.level],
                                       probe.constructing)[probe.written + 1]
                THEN probe.constructing
                ELSE probe.table[c]]]
  /\ UNCHANGED gameVars

\* this.blocks.push(block)
PushBlock ==
  /\ probe.op = "create"
  /\ probe.constructing # 0
  /\ probe.written =
       Len(levelBlockCells(ShippedLevels[probe.level], probe.constructing))
  /\ probe' = [probe EXCEPT !.built = probe.constructing, !.constructing = 0,
                            !.written = 0]
  /\ UNCHANGED gameVars

NextLevels == LoadLevel \/ AddExitZone \/ ConstructBlock \/ OccupyCell \/ PushBlock

SpecLevels == Init /\ [][NextLevels]_vars

(***************************************************************************)
(* The exit check on a grid of any size: new Grid(config), then             *)
(* checkExitCondition for one block and one exit of the block's colour      *)
(***************************************************************************)
\* Grid constructor: wallThickness, then cellSize from calculateCellSize
newGrid(config) ==
  LET wall == Min(Floor(100 * config.maxWidth, 3 * (100 * config.cols + 67)),
                  Floor(100 * config.maxHeight, 3 * (100 * config.rows + 67)))
  IN  [rows |-> config.rows, cols |-> config.cols, x |-> config.x, y |-> config.y,
       wallThickness |-> wall,
       cellSize |-> Min(Floor(config.maxWidth - wall * 2, config.cols),
                        Floor(config.maxHeight - wall * 2, config.rows))]

gridToWorldOn(grid, row, col) ==
  [x |-> grid.x + grid.wallThickness + col * grid.cellSize,
   y |-> grid.y + grid.wallThickness + row * grid.cellSize]

getWorldBoundsOn(grid) ==
  [left |-> grid.x,
   right |-> grid.x + grid.wallThickness * 2 + grid.cols * grid.cellSize,
   top |-> grid.y,
   bottom |-> grid.y + grid.wallThickness * 2 + grid.rows * grid.cellSize]

getPlayableBoundsOn(grid) ==
  [left |-> grid.x + grid.wallThickness,
   right |-> grid.x + grid.wallThickness + grid.cols * grid.cellSize,
   top |-> grid.y + grid.wallThickness,
   bottom |-> grid.y + grid.wallThickness + grid.rows * grid.cellSize]

\* Block.getWorldBounds of a block of shape s at gridPosition gp
blockWorldBoundsOn(grid, s, gp) ==
  LET offs == Range(normalizedOffsetsOf(s))
      minRow == SetMin({ o.row : o \in offs })
      maxRow == SetMax({ o.row : o \in offs })
      minCol == SetMin({ o.col : o \in offs })
      maxCol == SetMax({ o.col : o \in offs })
      topLeft == gridToWorldOn(grid, gp.row + minRow + originOffsetOf(s).row,
                               gp.col + minCol + originOffsetOf(s).col)
  IN  [left |-> topLeft.x,
       top |-> topLeft.y,
       right |-> topLeft.x + (maxCol - minCol + 1) * grid.cellSize,
       bottom |-> topLeft.y + (maxRow - minRow + 1) * grid.cellSize]

\* ExitZone.getWorldBounds
exitWorldBoundsOn(grid, exit) ==
  LET playable == getPlayableBoundsOn(grid)
      worldBounds == getWorldBoundsOn(grid)
  IN  CASE exit.side = "top" ->
             [left |-> playable.left + exit.startCell * grid.cellSize,
              right |-> playable.left + (exit.endCell + 1) * grid.cellSize,
              top |-> worldBounds.top,
              bottom |-> playable.top]
        [] exit.side = "bottom" ->
             [left |-> playable.left + exit.startCell * grid.cellSize,
              right |-> playable.left + (exit.endCell + 1) * grid.cellSize,
              top |-> playable.bottom,
              bottom |-> worldBounds.bottom]
        [] exit.side = "left" ->
             [left |-> worldBounds.left,
              right |-> playable.left,
              top |-> playable.top + exit.startCell * grid.cellSize,
              bottom |-> playable.top + (exit.endCell + 1) * grid.cellSize]
        [] exit.side = "right" ->
             [left |-> playable.right,
              right |-> worldBounds.right,
              top |-> playable.top + exit.startCell * grid.cellSize,
              bottom |-> playable.top + (exit.endCell + 1) * grid.cellSize]

canBlockFitOn(exit, exitBounds, blockBounds) ==
  IF exit.side \in {"top", "bottom"}
  THEN blockBounds.left >= exitBounds.left /\ blockBounds.right <= exitBounds.right
  ELSE blockBounds.top >= exitBounds.top /\ blockBounds.bottom <= exitBounds.bottom

\* An alignment test with the tolerance of a whole cell
isBlockAlignedOnWholeCell(exit, exitBounds, blockBounds, tolerance2) ==
  CASE exit.side = "top" -> Abs(blockBounds.top - exitBounds.top) <= tolerance2
    [] exit.side = "bottom" -> Abs(blockBounds.bottom - exitBounds.bottom) <= tolerance2
    [] exit.side = "left" -> Abs(blockBounds.left - exitBounds.left) <= tolerance2
    [] exit.side = "right" -> Abs(blockBounds.right - exitBounds.right) <= tolerance2

\* tolerance2 is twice the tolerance (cellSize * 0.5 is passed as cellSize)
isBlockAlignedOn(exit, exitBounds, blockBounds, tolerance2) ==
  CASE exit.side = "top" -> 2 * Abs(blockBounds.top - exitBounds.top) <= tolerance2
    [] exit.side = "bottom" -> 2 * Abs(blockBounds.bottom - exitBounds.bottom) <= tolerance2
    [] exit.side = "left" -> 2 * Abs(blockBounds.left - exitBounds.left) <= tolerance2
    [] exit.side = "right" -> 2 * Abs(blockBounds.right - exitBounds.right) <= tolerance2

\* checkExitCondition for the one exit, of the block's colour: TRUE when the
\* exit is returned
checkExitConditionOn(grid, exit, s, gp) ==
  /\ canBlockFitOn(exit, exitWorldBoundsOn(grid, exit), blockWorldBoundsOn(grid, s, gp))
  /\ isBlockAlignedOn(exit, exitWorldBoundsOn(grid, exit),
                      blockWorldBoundsOn(grid, s, gp), grid.cellSize)

GridConfigs ==
  [rows : 1..MaxGridSide, cols : 1..MaxGridSide, x : {0}, y : {0},
   maxWidth : 1..MaxPixels, maxHeight : 1..MaxPixels]

ProbeShapes == {"1x1", "1x2", "2x2", "L_0"}

ExitsOn(grid) ==
  { e \in [side : {"top", "bottom", "left", "right"},
           startCell : 0..(MaxGridSide - 1), endCell : 0..(MaxGridSide - 1)] :
      /\ e.startCell <= e.endCell
      /\ e.endCell < (IF e.side \in {"top", "bottom"} THEN grid.cols ELSE grid.rows) }

\* this.grid = new Grid({...})
ConstructGrid ==
  /\ probe = NoProbe
  /\ \E config \in GridConfigs :
       probe' = [op |-> "grid", grid |-> newGrid(config)]
  /\ UNCHANGED gameVars

\* One exit, one block of its colour at one grid position, and the answer of
\* checkExitCondition 
CallCheckExitCondition ==
  /\ probe.op = "grid"
  /\ probe.grid.cellSize > 0
  /\ \E exit \in ExitsOn(probe.grid) : \E s \in ProbeShapes :
       \E row \in (-1)..probe.grid.rows : \E col \in (-1)..probe.grid.cols :
         probe' = [op |-> "checkExitCondition", grid |-> probe.grid, exit |-> exit,
                   shape |-> s, gridPosition |-> O(row, col),
                   returned |-> checkExitConditionOn(probe.grid, exit, s, O(row, col))]
  /\ UNCHANGED gameVars

NextAlignment == ConstructGrid \/ CallCheckExitCondition

SpecAlignment == Init /\ [][NextAlignment]_vars

(***************************************************************************)
(* The two legality predicates on a grid of any size: the block asked      *)
(* about, one other block standing on its grid position, and at most one   *)
(* obstacle                                                                *)
(***************************************************************************)
isInBoundsOn(grid, row, col) ==
  row >= 0 /\ row < grid.rows /\ col >= 0 /\ col < grid.cols

\* Block.getOccupiedCells of a block of shape s at gridPosition gp
getOccupiedCellsOf(s, gp) ==
  { O(gp.row + o.row + originOffsetOf(s).row, gp.col + o.col + originOffsetOf(s).col) :
    o \in Range(normalizedOffsetsOf(s)) }

\* Grid.getCellOccupant when the table holds the other block only
getCellOccupantOn(grid, other, row, col) ==
  IF isInBoundsOn(grid, row, col) /\ O(row, col) \in getOccupiedCellsOf(other.shape, other.gridPosition)
  THEN other.id
  ELSE Null

\* Block.getWorldCellPositionsAt for a block of shape s
getWorldCellPositionsAtOn(grid, s, worldX, worldY) ==
  { [left |-> worldX + o.col * grid.cellSize,
     top |-> worldY + o.row * grid.cellSize,
     right |-> worldX + o.col * grid.cellSize + grid.cellSize,
     bottom |-> worldY + o.row * grid.cellSize + grid.cellSize] :
    o \in Range(normalizedOffsetsOf(s)) }

\* worldToGrid of the centre of a cell rectangle, the halves kept exact
centerGridPosOn(grid, cell) ==
  [row |-> Floor(cell.top + cell.bottom - 2 * (grid.y + grid.wallThickness),
                 2 * grid.cellSize),
   col |-> Floor(cell.left + cell.right - 2 * (grid.x + grid.wallThickness),
                 2 * grid.cellSize)]

getObstacleCellBoundsOn(grid, row, col) ==
  [left |-> gridToWorldOn(grid, row, col).x,
   top |-> gridToWorldOn(grid, row, col).y,
   right |-> gridToWorldOn(grid, row, col).x + grid.cellSize,
   bottom |-> gridToWorldOn(grid, row, col).y + grid.cellSize]

\* canBlockMoveTo for a block "block-0" of shape s; the other block's x and y
\* are the world position of its grid position
canBlockMoveToOn(grid, obstacles, other, s, worldX, worldY) ==
  LET draggedCells == getWorldCellPositionsAtOn(grid, s, worldX, worldY)
      otherPos == gridToWorldOn(grid, other.gridPosition.row + originOffsetOf(other.shape).row,
                                other.gridPosition.col + originOffsetOf(other.shape).col)
      occupantCollides ==
        /\ aabbsOverlap(calculateAABB(draggedCells),
                        blockWorldBoundsOn(grid, other.shape, other.gridPosition))
        /\ cellsOverlap(draggedCells,
                        getWorldCellPositionsAtOn(grid, other.shape, otherPos.x, otherPos.y),
                        COLLISION_BUFFER)
      neighbourRejects(draggedCell, checkRow, checkCol) ==
        /\ isInBoundsOn(grid, checkRow, checkCol)
        /\ \/ /\ getCellOccupantOn(grid, other, checkRow, checkCol) # Null
              /\ getCellOccupantOn(grid, other, checkRow, checkCol) # "block-0"
              /\ occupantCollides
           \/ /\ O(checkRow, checkCol) \in obstacles
              /\ boundsOverlap(draggedCell, getObstacleCellBoundsOn(grid, checkRow, checkCol),
                               COLLISION_BUFFER)
      cellRejected(draggedCell, gridPos) ==
        \/ ~isInBoundsOn(grid, gridPos.row, gridPos.col)
        \/ \E dr \in -1..1 : \E dc \in -1..1 :
             neighbourRejects(draggedCell, gridPos.row + dr, gridPos.col + dc)
  IN  \A draggedCell \in draggedCells :
        ~cellRejected(draggedCell, centerGridPosOn(grid, draggedCell))

\* isValidGridPosition for a block "block-0" of shape s
isValidGridPositionOn(grid, obstacles, other, s, row, col) ==
  \A offset \in Range(normalizedOffsetsOf(s)) :
    /\ isInBoundsOn(grid, row + offset.row, col + offset.col)
    /\ ~( /\ getCellOccupantOn(grid, other, row + offset.row, col + offset.col) # Null
          /\ getCellOccupantOn(grid, other, row + offset.row, col + offset.col) # "block-0" )
    /\ O(row + offset.row, col + offset.col) \notin obstacles

\* The other block: one cell, anywhere on the grid
OthersOn(grid) ==
  { [id |-> "block-1", shape |-> "1x1", gridPosition |-> O(r, c)] :
      r \in 0..(grid.rows - 1), c \in 0..(grid.cols - 1) }

\* No obstacle, or one in the last cell of the grid when the other block is
\* not there
ObstaclesOn(grid, other) ==
  {{}} \cup { {O(grid.rows - 1, grid.cols - 1)} :
               x \in { o \in {other} : o.gridPosition # O(grid.rows - 1, grid.cols - 1) } }

CallLegalityOn ==
  /\ probe.op = "grid"
  /\ probe.grid.cellSize > 0
  /\ \E other \in OthersOn(probe.grid) : \E obstacles \in ObstaclesOn(probe.grid, other) :
       \E s \in ProbeShapes :
         \E row \in (-1)..probe.grid.rows : \E col \in (-1)..probe.grid.cols :
           probe' = [op |-> "legalityOn", grid |-> probe.grid, other |-> other,
                     obstacles |-> obstacles, shape |-> s, row |-> row, col |-> col,
                     isValidGridPosition |->
                       isValidGridPositionOn(probe.grid, obstacles, other, s, row, col),
                     canBlockMoveTo |->
                       canBlockMoveToOn(probe.grid, obstacles, other, s,
                                        gridToWorldOn(probe.grid, row, col).x,
                                        gridToWorldOn(probe.grid, row, col).y)]
  /\ UNCHANGED gameVars

NextLegalityOn == ConstructGrid \/ CallLegalityOn

SpecLegalityOn == Init /\ [][NextLegalityOn]_vars

(***************************************************************************)
(* The shapes of the catalog: a block of each shape is constructed and put *)
(* on an empty grid at a grid position by setGridPosition, with the cells  *)
(* isValidGridPosition looks at for that position                          *)
(***************************************************************************)
ShapeTypes == DOMAIN SHAPES

\* An empty grid on which every shape of the catalog finds room
CatalogGrid == [rows |-> MaxGridSide + 1, cols |-> MaxGridSide + 1]

\* Block constructor: rawOffsets, shapeOriginOffset and shapeOffsets
ConstructShape ==
  /\ probe = NoProbe
  /\ \E s \in ShapeTypes :
       probe' = [op |-> "block", shape |-> s, rawOffsets |-> getShapeOffsets(s),
                 shapeOriginOffset |-> originOffsetOf(s),
                 shapeOffsets |-> normalizedOffsetsOf(s)]
  /\ UNCHANGED gameVars

\* The cells the loop of isValidGridPosition(block, row, col) looks at
checkedCells(offsets, row, col) ==
  { O(row + offsets[i].row, col + offsets[i].col) : i \in DOMAIN offsets }

\* isValidGridPosition(block, row, col) on the empty grid, then
\* setGridPosition(row, col): the cells of getOccupiedCells, of which
\* setCellOccupied writes those in bounds
PlaceShape ==
  /\ probe.op = "block"
  /\ \E row \in (-1)..CatalogGrid.rows : \E col \in (-1)..CatalogGrid.cols :
       probe' = [op |-> "setGridPosition", shape |-> probe.shape,
                 rawOffsets |-> probe.rawOffsets,
                 shapeOriginOffset |-> probe.shapeOriginOffset,
                 shapeOffsets |-> probe.shapeOffsets,
                 row |-> row, col |-> col,
                 checked |-> checkedCells(probe.shapeOffsets, row, col),
                 isValidGridPosition |->
                   \A c \in checkedCells(probe.shapeOffsets, row, col) :
                     isInBoundsOn(CatalogGrid, c.row, c.col),
                 occupied |->
                   { c \in getOccupiedCellsOf(probe.shape, O(row, col)) :
                       isInBoundsOn(CatalogGrid, c.row, c.col) }]
  /\ UNCHANGED gameVars

NextCatalog == ConstructShape \/ PlaceShape

SpecCatalog == Init /\ [][NextCatalog]_vars

(***************************************************************************)
(* The Grid on its own: its accessors called with positions inside the     *)
(* grid and up to one cell outside of it                                   *)
(***************************************************************************)
GridRows == (-1)..rows
GridCols == (-1)..cols

GridFrame ==
  UNCHANGED << currentLevel, blocks, gridPosition, lastValidPosition, pos, isDragging,
               dragOffset, disposal, activeBlock, hasHadFirstInteraction, timerStarted,
               timerEvents, timer, isGameActive, timerEventRemoved, triggered, scene,
               lastEvent >>

CallIsCellOccupied ==
  /\ \E row \in GridRows : \E col \in GridCols :
       probe' = [op |-> "isCellOccupied", row |-> row, col |-> col, occupant |-> Null,
                 held |-> {}, returned |-> isCellOccupied(row, col)]
  /\ UNCHANGED cells
  /\ GridFrame

CallGetCellOccupant ==
  /\ \E row \in GridRows : \E col \in GridCols :
       probe' = [op |-> "getCellOccupant", row |-> row, col |-> col, occupant |-> Null,
                 held |-> {}, returned |-> getCellOccupant(row, col)]
  /\ UNCHANGED cells
  /\ GridFrame

CallSetCellOccupied ==
  /\ \E row \in GridRows : \E col \in GridCols : \E occupant \in BlockIds :
       /\ cells' = setCellOccupied(cells, row, col, occupant)
       /\ probe' = [op |-> "setCellOccupied", row |-> row, col |-> col,
                    occupant |-> occupant, held |-> {}, returned |-> Null]
  /\ GridFrame

CallClearCell ==
  /\ \E row \in GridRows : \E col \in GridCols :
       /\ cells' = clearCell(cells, row, col)
       /\ probe' = [op |-> "clearCell", row |-> row, col |-> col, occupant |-> Null,
                    held |-> {}, returned |-> Null]
  /\ GridFrame

\* held: the cells that referenced the entity when clearEntity was called
CallClearEntity ==
  /\ \E entity \in BlockIds :
       /\ cells' = clearEntity(cells, entity)
       /\ probe' = [op |-> "clearEntity", row |-> 0, col |-> 0, occupant |-> entity,
                    held |-> { c \in Cells : cells[c] = entity }, returned |-> Null]
  /\ GridFrame

NextGrid ==
  \/ CallIsCellOccupied
  \/ CallGetCellOccupant
  \/ CallSetCellOccupied
  \/ CallClearCell
  \/ CallClearEntity

SpecGrid == Init /\ [][NextGrid]_vars

(***************************************************************************)
(* The coordinate conversions in the arithmetic of the number type: every  *)
(* sum, difference and quotient is rounded to the nearest number with      *)
(* MantissaBits significant binary digits, ties to even.  Numbers are      *)
(* counted in steps of 2^-StepBits.  The origin of the grid is a number    *)
(* with a fraction, (gameWidth - gameWidth * 0.95) / 2 in the scene;       *)
(* wallThickness, cellSize, row and col are whole numbers.                 *)
(***************************************************************************)
MantissaBits == 6
StepBits == 10
OriginBits == 3
MaxOrigin == 2

Step == 2 ^ StepBits

RECURSIVE BitLength(_)
BitLength(n) == IF n = 0 THEN 0 ELSE 1 + BitLength(n \div 2)

\* n / d rounded to the nearest integer, ties to even (d > 0)
RoundHalfEven(n, d) ==
  LET q == n \div d
      r == n % d
  IN  IF 2 * r < d THEN q
      ELSE IF 2 * r > d THEN q + 1
      ELSE IF q % 2 = 0 THEN q ELSE q + 1

\* The number nearest to n / d steps
roundToNumber(n, d) ==
  LET e == Max(0, BitLength(Abs(n) \div d) - MantissaBits)
  IN  RoundHalfEven(n, d * 2 ^ e) * 2 ^ e

toNumber(i) == roundToNumber(i * Step, 1)
plus(a, b) == roundToNumber(a + b, 1)
minus(a, b) == roundToNumber(a - b, 1)
dividedBy(a, b) == roundToNumber(a * Step, b)
mathFloor(a) == a \div Step

\* x + wallThickness + (col * cellSize), y + wallThickness + (row * cellSize)
gridToWorldNumber(grid, row, col) ==
  [x |-> plus(plus(grid.x, toNumber(grid.wallThickness)), toNumber(col * grid.cellSize)),
   y |-> plus(plus(grid.y, toNumber(grid.wallThickness)), toNumber(row * grid.cellSize))]

\* floor((worldX - (x + wallThickness)) / cellSize) and the same for the row
worldToGridNumber(grid, worldX, worldY) ==
  LET relativeX == minus(worldX, plus(grid.x, toNumber(grid.wallThickness)))
      relativeY == minus(worldY, plus(grid.y, toNumber(grid.wallThickness)))
  IN  [row |-> mathFloor(dividedBy(relativeY, toNumber(grid.cellSize))),
       col |-> mathFloor(dividedBy(relativeX, toNumber(grid.cellSize)))]

\* The numbers from 0 to MaxOrigin in steps of 2^-OriginBits
Origins ==
  { n * 2 ^ (StepBits - OriginBits) : n \in 0..(MaxOrigin * 2 ^ OriginBits) }

\* The world points asked for: the numbers in steps of a half around and on
\* a grid at these origins
WorldPoints ==
  { v \in { n * 2 ^ (StepBits - 1) : n \in (-2)..(2 * MaxPixels) } :
      roundToNumber(v, 1) = v }

OriginConfigs ==
  { config \in [rows : {MaxGridSide}, cols : {MaxGridSide}, x : Origins, y : {0},
                 maxWidth : (MaxPixels - 2)..MaxPixels, maxHeight : {MaxPixels}] :
      roundToNumber(config.x, 1) = config.x }

\* this.grid = new Grid({...}) at an origin with a fraction on both axes
ConstructGridAtOrigin ==
  /\ probe = NoProbe
  /\ \E config \in OriginConfigs :
       probe' = [op |-> "gridAt", grid |-> [newGrid(config) EXCEPT !.y = config.x]]
  /\ UNCHANGED gameVars

\* gridToWorld(row, col), and worldToGrid of the corner it returns
CallGridToWorld ==
  /\ probe.op = "gridAt"
  /\ probe.grid.cellSize > 0
  /\ \E row \in (-1)..probe.grid.rows : \E col \in (-1)..probe.grid.cols :
       LET world == gridToWorldNumber(probe.grid, row, col)
       IN  probe' = [op |-> "gridToWorld", grid |-> probe.grid, row |-> row, col |-> col,
                     world |-> world,
                     back |-> worldToGridNumber(probe.grid, world.x, world.y)]
  /\ UNCHANGED gameVars

\* worldToGrid(x, y), and gridToWorld of the cell it returns
CallWorldToGrid ==
  /\ probe.op = "gridAt"
  /\ probe.grid.cellSize > 0
  /\ \E worldX \in WorldPoints :
       LET position == worldToGridNumber(probe.grid, worldX, worldX)
       IN  probe' = [op |-> "worldToGrid", grid |-> probe.grid, x |-> worldX,
                     y |-> worldX, position |-> position,
                     corner |-> gridToWorldNumber(probe.grid, position.row, position.col)]
  /\ UNCHANGED gameVars

NextConversion == ConstructGridAtOrigin \/ CallGridToWorld \/ CallWorldToGrid

SpecConversion == Init /\ [][NextConversion]_vars

(***************************************************************************)
(* The two loops of the CollisionDetector step by step: one iteration of   *)
(* findNearestValidGridPosition or of getValidDragPosition per step, for   *)
(* the block that is being dragged.  evaluations counts the calls of       *)
(* isValidGridPosition and of canBlockMoveTo.                              *)
(***************************************************************************)
\* A ring test that lets every pair of the square through
onRingAlways(distance, dRow, dCol) == TRUE

\* Math.abs(dRow) === distance || Math.abs(dCol) === distance
onRing(distance, dRow, dCol) == Abs(dRow) = distance \/ Abs(dCol) = distance

\* dCol++, then dRow++, then distance++ of the three nested loops
nextIteration(p) ==
  IF p.dCol < p.distance
  THEN [p EXCEPT !.dCol = p.dCol + 1]
  ELSE IF p.dRow < p.distance
       THEN [p EXCEPT !.dRow = p.dRow + 1, !.dCol = -p.distance]
       ELSE [p EXCEPT !.distance = p.distance + 1, !.dRow = -(p.distance + 1),
                      !.dCol = -(p.distance + 1)]

\* const gridPos = this.grid.worldToGrid(worldX, worldY)
SearchCall ==
  /\ probe = NoProbe
  /\ activeBlock # Null
  /\ \E worldX \in SearchXs : \E worldY \in SearchYs :
       probe' = [op |-> "findNearestValidGridPosition", block |-> activeBlock,
                 gridPos |-> worldToGrid(worldX, worldY), pc |-> "first",
                 distance |-> 0, dRow |-> 0, dCol |-> 0, evaluations |-> 0,
                 result |-> << >>]
  /\ UNCHANGED gameVars

\* Try the nearest position first
SearchFirst ==
  /\ probe.op = "findNearestValidGridPosition"
  /\ probe.pc = "first"
  /\ probe' =
       IF isValidGridPosition(probe.block, probe.gridPos.row, probe.gridPos.col)
       THEN [probe EXCEPT !.pc = "returned", !.evaluations = 1,
                          !.result = << probe.gridPos >>]
       ELSE [probe EXCEPT !.pc = "loop", !.evaluations = 1, !.distance = 1,
                          !.dRow = -1, !.dCol = -1]
  /\ UNCHANGED gameVars

\* An iteration on the ring: isValidGridPosition(block, testRow, testCol)
SearchTest ==
  /\ probe.op = "findNearestValidGridPosition"
  /\ probe.pc = "loop"
  /\ probe.distance <= maxDistance
  /\ onRing(probe.distance, probe.dRow, probe.dCol)
  /\ LET testRow == probe.gridPos.row + probe.dRow
         testCol == probe.gridPos.col + probe.dCol
     IN  probe' =
           IF isValidGridPosition(probe.block, testRow, testCol)
           THEN [probe EXCEPT !.pc = "returned",
                              !.evaluations = probe.evaluations + 1,
                              !.result = << [row |-> testRow, col |-> testCol] >>]
           ELSE [nextIteration(probe) EXCEPT !.evaluations = probe.evaluations + 1]
  /\ UNCHANGED gameVars

\* An iteration inside the ring
SearchSkip ==
  /\ probe.op = "findNearestValidGridPosition"
  /\ probe.pc = "loop"
  /\ probe.distance <= maxDistance
  /\ ~onRing(probe.distance, probe.dRow, probe.dCol)
  /\ probe' = nextIteration(probe)
  /\ UNCHANGED gameVars

\* No valid position found: return null
SearchExhausted ==
  /\ probe.op = "findNearestValidGridPosition"
  /\ probe.pc = "loop"
  /\ probe.distance > maxDistance
  /\ probe' = [probe EXCEPT !.pc = "returned", !.result = << >>]
  /\ UNCHANGED gameVars

\* getValidDragPosition(block, desiredX, desiredY, block.x, block.y) up to
\* the loop
SweepCall ==
  /\ probe = NoProbe
  /\ activeBlock # Null
  /\ \E d \in Deltas :
       probe' =
         IF d.x = 0 /\ d.y = 0
         THEN [op |-> "getValidDragPosition", block |-> activeBlock,
               current |-> pos[activeBlock], dx |-> 0, dy |-> 0, steps |-> 0, i |-> 1,
               lastValid |-> pos[activeBlock], evaluations |-> 0, pc |-> "returned",
               result |-> << pos[activeBlock] >>]
         ELSE [op |-> "getValidDragPosition", block |-> activeBlock,
               current |-> pos[activeBlock], dx |-> d.x, dy |-> d.y,
               steps |-> sweepSteps(d.x, d.y), i |-> 1,
               lastValid |-> pos[activeBlock], evaluations |-> 0, pc |-> "loop",
               result |-> << >>]
  /\ UNCHANGED gameVars

\* One iteration: canBlockMoveTo(block, testX, testY)
SweepTest ==
  /\ probe.op = "getValidDragPosition"
  /\ probe.pc = "loop"
  /\ probe.i <= probe.steps
  /\ LET testX == probe.current.x + (probe.dx * probe.i) \div probe.steps
         testY == probe.current.y + (probe.dy * probe.i) \div probe.steps
     IN  probe' =
           IF canBlockMoveTo(probe.block, testX, testY)
           THEN [probe EXCEPT !.lastValid = [x |-> testX, y |-> testY],
                              !.i = probe.i + 1,
                              !.evaluations = probe.evaluations + 1]
           ELSE [probe EXCEPT !.pc = "returned",
                              !.evaluations = probe.evaluations + 1,
                              !.result = << probe.lastValid >>]
  /\ UNCHANGED gameVars

\* No collision detected along the path
SweepDone ==
  /\ probe.op = "getValidDragPosition"
  /\ probe.pc = "loop"
  /\ probe.i > probe.steps
  /\ probe' = [probe EXCEPT !.pc = "returned",
                            !.result = << [x |-> probe.current.x + probe.dx,
                                           y |-> probe.current.y + probe.dy] >>]
  /\ UNCHANGED gameVars

NextLoops ==
  \/ SearchCall
  \/ SearchFirst
  \/ SearchTest
  \/ SearchSkip
  \/ SearchExhausted
  \/ SweepCall
  \/ SweepTest
  \/ SweepDone

\* The blocks where the level puts them, one of them picked up
InitLoops ==
  /\ InitSearch
  /\ gridPosition = [b \in BlockIds |-> LevelData.blocks[BlockIndex(b)].startPosition]

\* A call that has been made runs on: the handler is not preempted
SpecLoops == InitLoops /\ [][NextLoops]_vars /\ WF_vars(NextLoops)

(***************************************************************************)
(* Properties: occupancy and placement                                     *)
(***************************************************************************)
OnBoard == Range(blocks)

\* The grid cells whose occupant is block b
cellsHeldBy(b) == { c \in Cells : cells[c] = b }

ObstacleCells == { c \in Cells : isObstacle(c.row, c.col) }

\* C1: in every reachable state, for every block on the board that is not
\* mid-drag, the cells given by getOccupiedCells are exactly the grid cells
\* whose occupant is that block.
OccupancyMatchesPosition ==
  \A b \in OnBoard :
    ~isDragging[b] => getOccupiedCells(b, gridPosition[b]) = cellsHeldBy(b)

\* C2: in every reachable state, two distinct non-dragging blocks on the
\* board occupy disjoint cell sets, and no non-dragging block occupies an
\* obstacle cell.
PlacedBlocksDisjoint ==
  \A a \in OnBoard : ~isDragging[a] =>
    /\ getOccupiedCells(a, gridPosition[a]) \cap ObstacleCells = {}
    /\ \A b \in OnBoard \ {a} : ~isDragging[b] =>
         getOccupiedCells(a, gridPosition[a])
           \cap getOccupiedCells(b, gridPosition[b]) = {}

\* C5: after a drag-end that matched no exit and found no valid position, so
\* that the block was reverted to its last valid position, the occupancy of
\* every non-dragging block on the board matches its position and the
\* reverted block's cells overlap no other placed block and no obstacle.
RevertLeavesGridConsistent ==
  (lastEvent.handler = "onDragEnd" /\ lastEvent.outcome = "reverted") =>
    LET r == lastEvent.block
        rCells == getOccupiedCells(r, gridPosition[r])
    IN  /\ \A b \in OnBoard :
             ~isDragging[b] =>
               getOccupiedCells(b, gridPosition[b]) = cellsHeldBy(b)
        /\ rCells \cap ObstacleCells = {}
        /\ \A b \in OnBoard \ {r} :
             ~isDragging[b] => rCells \cap getOccupiedCells(b, gridPosition[b]) = {}

\* A block was reverted by a drag-end
RevertHappened ==
  lastEvent.handler = "onDragEnd" /\ lastEvent.outcome = "reverted"

(***************************************************************************)
(* Properties: drag-move resolution                                        *)
(***************************************************************************)
\* C3: no tunneling.  Whenever a drag-move is resolved for a block whose
\* current position satisfies canBlockMoveTo, the position the resolution
\* returns (the block's next position) satisfies canBlockMoveTo too, also
\* when the desired position does not.
NoTunneling ==
  [][ \A b \in BlockIds :
        ( /\ lastEvent'.handler = "onDrag"
          /\ lastEvent'.block = b
          /\ canBlockMoveTo(b, pos[b].x, pos[b].y) )
        => canBlockMoveTo(b, pos'[b].x, pos'[b].y) ]_vars

\* A drag-move was stopped on its way: the block moved, to a legal position
\* short of the desired one
SweepStoppedShort ==
  /\ lastEvent.handler = "onDrag"
  /\ lastEvent.outcome = "stopped"
  /\ canBlockMoveTo(lastEvent.block, pos[lastEvent.block].x, pos[lastEvent.block].y)

(***************************************************************************)
(* Properties: drag-end                                                    *)
(***************************************************************************)
\* C4: a drag-end delivered to the dragging block clears its dragging flag
\* and has exactly one of three outcomes, in this order: (a) the exit
\* condition matches at the grid position of the block's continuous
\* position: the block is removed and block-removed is notified; (b)
\* otherwise findNearestValidGridPosition returns a position: the block is
\* committed there and move-completed is notified; (c) otherwise the block is
\* set to its last valid position and nothing is notified.
DragEndOutcomes ==
  [][ \A b \in BlockIds :
        (lastEvent'.handler = "onDragEnd" /\ lastEvent'.block = b) =>
          LET gp == worldToGrid(pos[b].x, pos[b].y)
              exit == checkExitCondition(b, color[b], gp, LevelData.exits)
              found == findNearestValidGridPosition(b, pos[b].x, pos[b].y)
              removed == /\ b \notin Range(blocks')
                         /\ cellsHeldBy(b)' = {}
                         /\ lastEvent'.callbacks = << "onBlockRemoved" >>
              committedAt(p) == /\ b \in Range(blocks')
                                /\ gridPosition'[b] = p
                                /\ lastValidPosition'[b] = p
                                /\ pos'[b] = gridToWorld(p.row, p.col)
                                /\ cellsHeldBy(b)' = getOccupiedCells(b, p)
          IN  /\ isDragging[b] /\ ~isDragging'[b]
              /\ IF exit # 0
                 THEN removed
                 ELSE IF found # << >>
                 THEN /\ committedAt(found[1])
                      /\ lastEvent'.callbacks = << "onMoveComplete" >>
                 ELSE /\ committedAt(lastValidPosition[b])
                      /\ lastEvent'.callbacks = << >> ]_vars

\* A drag-end snapped a block to the grid after an earlier drag-end removed
\* another block through its exit
DragEndSnapped ==
  /\ lastEvent.handler = "onDragEnd"
  /\ lastEvent.outcome = "snapped"
  /\ ~isDragging[lastEvent.block]
  /\ \E b \in BlockIds : disposal[b] # "none"

(***************************************************************************)
(* Properties: exits.  The exit condition is stated here from the grid's   *)
(* geometry, without the ExitZone operators.                               *)
(***************************************************************************)
EqualIgnoringCase(s, t) ==
  /\ Len(s) = Len(t)
  /\ \A i \in DOMAIN s :
       \/ s[i] = t[i]
       \/ \E k \in DOMAIN UpperCaseLetters :
            {s[i], t[i]} = {UpperCaseLetters[k], LowerCaseLetters[k]}

\* The bounding box of the cell rectangles of block b at grid position gp
BoundingBoxAt(b, gp) ==
  LET occupied == getOccupiedCells(b, gp)
      playable == getPlayableBounds
  IN  [left |-> playable.left + SetMin({ c.col : c \in occupied }) * cellSize,
       right |-> playable.left + (SetMax({ c.col : c \in occupied }) + 1) * cellSize,
       top |-> playable.top + SetMin({ c.row : c \in occupied }) * cellSize,
       bottom |-> playable.top + (SetMax({ c.row : c \in occupied }) + 1) * cellSize]

\* The box lies within the exit's span of cells along the exit's axis
FitsExitSpan(exit, box) ==
  LET playable == getPlayableBounds
  IN  IF exit.side \in {"top", "bottom"}
      THEN /\ playable.left + exit.startCell * cellSize <= box.left
           /\ box.right <= playable.left + (exit.endCell + 1) * cellSize
      ELSE /\ playable.top + exit.startCell * cellSize <= box.top
           /\ box.bottom <= playable.top + (exit.endCell + 1) * cellSize

\* The box's edge on the exit's side is within half a cell of the outer edge
\* of the grid's wall on that side, the exit's outward edge
WithinHalfCellOfOutwardEdge(exit, box) ==
  LET outer == GridWorldBounds
      gap == CASE exit.side = "top" -> Abs(box.top - outer.top)
               [] exit.side = "bottom" -> Abs(box.bottom - outer.bottom)
               [] exit.side = "left" -> Abs(box.left - outer.left)
               [] exit.side = "right" -> Abs(box.right - outer.right)
  IN  2 * gap <= cellSize

ExitConditionHolds(exit, b, blockColor, gp) ==
  /\ EqualIgnoringCase(exit.color, blockColor)
  /\ FitsExitSpan(exit, BoundingBoxAt(b, gp))
  /\ WithinHalfCellOfOutwardEdge(exit, BoundingBoxAt(b, gp))

\* C7: a block leaves the board only in a drag-end step of that block, and
\* only when an exit of the block's own colour satisfies the exit condition
\* at the block's position; the exit it leaves through has its colour.  No
\* drag-start, drag-move or other step removes a block.
LeavesOnlyThroughOwnExit ==
  [][ \A b \in BlockIds :
        (b \in Range(blocks) /\ b \notin Range(blocks')) =>
          /\ lastEvent'.handler = "onDragEnd"
          /\ lastEvent'.block = b
          /\ isDragging[b] /\ activeBlock = b
          /\ lastEvent'.exit \in DOMAIN LevelData.exits
          /\ ExitConditionHolds(LevelData.exits[lastEvent'.exit], b, color[b],
                                worldToGrid(pos[b].x, pos[b].y)) ]_vars

\* A block has left the board through an exit of its colour
BlockLeftThroughExit ==
  /\ lastEvent.handler = "onDragEnd"
  /\ lastEvent.outcome = "removed"
  /\ lastEvent.block \notin Range(blocks)
  /\ EqualIgnoringCase(LevelData.exits[lastEvent.exit].color, color[lastEvent.block])

(***************************************************************************)
(* Properties: continuous legality                                         *)
(***************************************************************************)
\* The rectangle reaches past a bound of the playable area
ExtendsOutsidePlayable(cell) ==
  LET playable == getPlayableBounds
  IN  \/ cell.left < playable.left \/ cell.right > playable.right
      \/ cell.top < playable.top \/ cell.bottom > playable.bottom

\* The two rectangles share a region of positive area
IntersectWithArea(a, b) ==
  /\ Max(a.left, b.left) < Min(a.right, b.right)
  /\ Max(a.top, b.top) < Min(a.bottom, b.bottom)

\* C9: canBlockMoveTo is false at every position at which a cell rectangle of
\* the block extends outside the playable area.  Stated at the positions of
\* the dragged blocks.
RejectsOutsidePlayable ==
  \A b \in BlockIds :
    ( /\ isDragging[b]
      /\ \E cell \in getWorldCellPositionsAt(b, pos[b].x, pos[b].y) :
           ExtendsOutsidePlayable(cell) )
    => ~canBlockMoveTo(b, pos[b].x, pos[b].y)

\* C10: where canBlockMoveTo is true, no cell rectangle of the block has a
\* positive-area intersection with a cell rectangle of another block placed
\* on the grid or with an obstacle cell.  Stated at the positions of the
\* dragged blocks.
AcceptedPositionsKeepGap ==
  \A b \in BlockIds :
    (isDragging[b] /\ canBlockMoveTo(b, pos[b].x, pos[b].y)) =>
      \A cell \in getWorldCellPositionsAt(b, pos[b].x, pos[b].y) :
        /\ \A obs \in LevelData.obstacles :
             ~IntersectWithArea(cell, getObstacleCellBounds(obs.row, obs.col))
        /\ \A other \in BlockIds \ {b} :
             cellsHeldBy(other) # {} =>
               \A otherCell \in getWorldCellPositionsAt(other, pos[other].x,
                                                        pos[other].y) :
                 ~IntersectWithArea(cell, otherCell)

(***************************************************************************)
(* Properties: checkExitCondition                                          *)
(***************************************************************************)
\* The exits of the probed list that satisfy the exit condition
ProbeMatching ==
  { i \in DOMAIN probe.exitZones :
      ExitConditionHolds(probe.exitZones[i], probe.block, color[probe.block],
                         probe.gridPosition) }

\* C6: checkExitCondition returns an exit only if the exit's colour equals
\* the block's ignoring case, the block's bounding box lies within the exit's
\* span along the exit's axis and the block's edge on the exit's side is
\* within half a cell of the exit's outward edge; it returns none exactly
\* when no exit of the list satisfies the three conditions.
ExitReturnedOnlyIfSatisfied ==
  probe.op = "checkExitCondition" =>
    /\ probe.result # 0 => probe.result \in ProbeMatching
    /\ probe.result = 0 <=> ProbeMatching = {}

\* An exit was returned for the two-cell block from a list that also holds an
\* exit failing the condition
ExitReturnedAmongRejected ==
  /\ probe.op = "checkExitCondition"
  /\ probe.result # 0
  /\ shape[probe.block] = "1x2"
  /\ ProbeMatching # DOMAIN probe.exitZones

\* C8: when more than one exit of the list satisfies the exit condition,
\* checkExitCondition returns the one that comes first in the list.
FirstMatchingExitWins ==
  (probe.op = "checkExitCondition" /\ Cardinality(ProbeMatching) > 1) =>
    /\ probe.result \in ProbeMatching
    /\ \A i \in ProbeMatching : probe.result <= i

\* Two different exits of the list satisfy the condition and the first is returned
TwoExitsMatchFirstReturned ==
  /\ probe.op = "checkExitCondition"
  /\ \E i, j \in ProbeMatching :
       i < j /\ probe.exitZones[i] # probe.exitZones[j] /\ probe.result = i

(***************************************************************************)
(* Properties: grid validity and the search for the nearest position       *)
(***************************************************************************)
\* Every cell block b would occupy at grid position p lies on the grid, is
\* empty or held by b itself, and is not an obstacle
FreeFor(b, p) ==
  \A c \in getOccupiedCells(b, p) :
    /\ 0 <= c.row /\ c.row < rows
    /\ 0 <= c.col /\ c.col < cols
    /\ cells[c] \in {Null, b}
    /\ c \notin ObstacleCells

Chebyshev(p, q) == Max(Abs(p.row - q.row), Abs(p.col - q.col))

\* The grid positions within Chebyshev distance maxDistance of position start
\* at which block b is valid
ValidWithin(b, start) ==
  { p \in { O(start.row + dr, start.col + dc) :
              dr \in (-maxDistance)..maxDistance, dc \in (-maxDistance)..maxDistance } :
      FreeFor(b, p) }

\* Position p comes no later than q in the search from start: nearer ring
\* first, then the upper row, then the left column
NoLaterFrom(start, p, q) ==
  \/ Chebyshev(start, p) < Chebyshev(start, q)
  \/ /\ Chebyshev(start, p) = Chebyshev(start, q)
     /\ \/ p.row < q.row
        \/ p.row = q.row /\ p.col <= q.col

ProbeStart == worldToGrid(probe.worldX, probe.worldY)

firstCandidate(worldX, worldY) ==
  O(worldToGrid(worldX, worldY).row + searchOrder[1].dRow,
    worldToGrid(worldX, worldY).col + searchOrder[1].dCol)

\* C13: the first candidate findNearestValidGridPosition tests is the grid
\* cell nearest to (x, y): no grid position has its top-left world corner
\* nearer to (x, y) on either axis.
FirstCandidateIsNearestCell ==
  probe.op = "findNearestValidGridPosition" =>
    \A r \in (-SearchReach - 1)..(rows + SearchReach + 1) :
      \A c \in (-SearchReach - 1)..(cols + SearchReach + 1) :
        /\ Abs(gridToWorld(firstCandidate(probe.worldX, probe.worldY).row,
                           firstCandidate(probe.worldX, probe.worldY).col).x
                 - probe.worldX)
             <= Abs(gridToWorld(r, c).x - probe.worldX)
        /\ Abs(gridToWorld(firstCandidate(probe.worldX, probe.worldY).row,
                           firstCandidate(probe.worldX, probe.worldY).col).y
                 - probe.worldY)
             <= Abs(gridToWorld(r, c).y - probe.worldY)

\* The search was started more than half a cell to the right of a cell corner
SearchStartedPastHalfCell ==
  /\ probe.op = "findNearestValidGridPosition"
  /\ 2 * (probe.worldX - gridToWorld(ProbeStart.row, ProbeStart.col).x) > cellSize

(***************************************************************************)
(* Properties: notifications and the life of a block                       *)
(***************************************************************************)
\* C14: move-completed is emitted at a drag-end only when the block was not
\* removed and its committed grid position differs from its grid position
\* before the drag; releasing a block onto the cell it started from emits no
\* move-completed.
MoveCompletedOnlyOnChange ==
  [][ \A b \in BlockIds :
        ( /\ lastEvent'.handler = "onDragEnd"
          /\ lastEvent'.block = b
          /\ isDragging[b]
          /\ "onMoveComplete" \in Range(lastEvent'.callbacks) ) =>
          /\ b \in Range(blocks')
          /\ gridPosition'[b] # gridPosition[b] ]_vars

\* C15: first-interaction is emitted exactly once per level: at the first
\* drag-start after the level was created and at no later drag-start or
\* other event; the timer it starts is started at most once.
FirstInteractionOnce ==
  [][ /\ lastEvent.handler = "create" =>
           /\ lastEvent'.handler = "onDragStart"
           /\ lastEvent'.callbacks = << "onFirstInteraction" >>
           /\ timerEvents' = 1
      /\ lastEvent.handler # "create" =>
           /\ "onFirstInteraction" \notin Range(lastEvent'.callbacks)
           /\ timerEvents' = timerEvents
      /\ timerEvents' <= 1 ]_vars

\* A later drag-start, of a block other than the one dragged first, has run
\* without notifying
LaterDragStartSilent ==
  /\ lastEvent.handler = "onDragStart"
  /\ lastEvent.callbacks = << >>
  /\ timerEvents = 1
  /\ \E b \in BlockIds : b # lastEvent.block /\ gridPosition[b] # LevelData.blocks[BlockIndex(b)].startPosition

\* The fields of block b and its membership of the block list
blockState(b) ==
  << gridPosition[b], lastValidPosition[b], pos[b], isDragging[b], dragOffset[b],
     disposal[b], b \in Range(blocks) >>

NeverPickedUp(b) ==
  /\ disposal[b] = "none"
  /\ ~isDragging[b]
  /\ dragOffset[b] = [x |-> 0, y |-> 0]

\* Block b is held in its start row and cannot go one pointer step further left
DraggedFullyLeft(b) ==
  /\ isDragging[b]
  /\ pos[b].y = gridToWorld(LevelData.blocks[BlockIndex(b)].startPosition.row, 0).y
  /\ pos[b].x < gridToWorld(0, 1).x
  /\ ~canBlockMoveTo(b, pos[b].x - PointerStep, pos[b].y)

\* C17: with the two-cell blue block one cell from the left wall and a blue
\* exit on the left spanning its row only, every drag that takes the block
\* left along its row as far as the engine lets it go and releases it there
\* ends with the block removed through that exit and block-removed notified.
DraggedFullyLeftLeaves ==
  [][ ( /\ lastEvent'.handler = "onDragEnd"
        /\ lastEvent'.block = "block-0"
        /\ DraggedFullyLeft("block-0")
        /\ NeverPickedUp("block-1") ) =>
        /\ lastEvent'.outcome = "removed"
        /\ LevelData.exits[lastEvent'.exit].side = "left"
        /\ lastEvent'.callbacks = << "onBlockRemoved" >>
        /\ "block-0" \notin Range(blocks') ]_vars

\* The blue block was released as far left as the engine let it go
ReleasedFullyLeft ==
  /\ lastEvent.handler = "onDragEnd"
  /\ lastEvent.block = "block-0"
  /\ disposal["block-0"] = "none"
  /\ NeverPickedUp("block-1")
  /\ pos["block-0"] = gridToWorld(0, 0)

\* C18: with two one-cell blocks at (0,0) and (0,1), canBlockMoveTo is false
\* for the first block at the world position of cell (0,1), and however the
\* first block is dragged and released while the second stays where it is,
\* the cells the two blocks are committed to are disjoint.
NeighbourCellRejected ==
  (currentLevel = 3 /\ NeverPickedUp("block-1")) =>
    /\ ~canBlockMoveTo("block-0", gridToWorld(0, 1).x, gridToWorld(0, 1).y)
    /\ (disposal["block-0"] = "none" /\ ~isDragging["block-0"]) =>
          /\ getOccupiedCells("block-0", gridPosition["block-0"])
                \cap getOccupiedCells("block-1", gridPosition["block-1"]) = {}
          /\ cellsHeldBy("block-0") \cap cellsHeldBy("block-1") = {}
          /\ cellsHeldBy("block-1") = { O(0, 1) }

\* The first block was dragged around the second and released on a cell next
\* to it
ReleasedNextToNeighbour ==
  /\ currentLevel = 3
  /\ NeverPickedUp("block-1")
  /\ lastEvent.handler = "onDragEnd"
  /\ lastEvent.block = "block-0"
  /\ lastEvent.outcome = "snapped"
  /\ gridPosition["block-0"] \in { O(1, 1), O(0, 2) }
  /\ ~canBlockMoveTo("block-0", gridToWorld(0, 1).x, gridToWorld(0, 1).y)

(***************************************************************************)
(* Properties: sliding                                                     *)
(***************************************************************************)
Sign(a) == IF a > 0 THEN 1 ELSE IF a < 0 THEN -1 ELSE 0

\* On the way from c to t, block b can be nowhere that is displaced from c by
\* twice the collision buffer or more along x
BlockedAlongX(b, c, t) ==
  /\ Abs(t.x - c.x) >= 2 * COLLISION_BUFFER
  /\ \A e \in (2 * COLLISION_BUFFER)..Abs(t.x - c.x) : \A j \in 0..Abs(t.y - c.y) :
       ~canBlockMoveTo(b, c.x + Sign(t.x - c.x) * e, c.y + Sign(t.y - c.y) * j)

BlockedAlongY(b, c, t) ==
  /\ Abs(t.y - c.y) >= 2 * COLLISION_BUFFER
  /\ \A e \in (2 * COLLISION_BUFFER)..Abs(t.y - c.y) : \A i \in 0..Abs(t.x - c.x) :
       ~canBlockMoveTo(b, c.x + Sign(t.x - c.x) * i, c.y + Sign(t.y - c.y) * e)

\* Block b can move from c all the way to t's x, and to t's y, on the axis alone
FreeAlongX(b, c, t) ==
  \A i \in 1..Abs(t.x - c.x) : canBlockMoveTo(b, c.x + Sign(t.x - c.x) * i, c.y)

FreeAlongY(b, c, t) ==
  \A j \in 1..Abs(t.y - c.y) : canBlockMoveTo(b, c.x, c.y + Sign(t.y - c.y) * j)

\* The resolution has returned for a diagonal desired movement
SlidReturned ==
  /\ probe.op = "getValidDragPositionWithSliding"
  /\ probe.leg = "done"
  /\ probe.desired.x # probe.current.x
  /\ probe.desired.y # probe.current.y

Misconfigured(b, gp) ==
  \E c \in getOccupiedCells(b, gp) :
    \/ ~isInBounds(c.row, c.col)
    \/ isObstacle(c.row, c.col)
    \/ cells[c] \notin { Null, b }

\* C20: the construction of a block whose initial cells lie outside the
\* grid, on an obstacle or on a cell another block occupies fails with an
\* error and leaves the occupancy table as it was.
MisconfiguredBlockRejected ==
  [][\A b \in BlockIds :
       (/\ lastEvent'.handler = "constructor"
        /\ lastEvent'.block = b
        /\ Len(blocks') = Len(blocks) + 1
        /\ Misconfigured(b, gridPosition'[b]))
       => /\ lastEvent'.outcome = "error"
          /\ cells' = cells]_vars

\* A block was constructed on the cells of a block constructed before it,
\* and holds them in the table
ConstructedOverNeighbour ==
  \E a, b \in Range(blocks) :
    /\ a # b
    /\ BlockIndex(a) < BlockIndex(b)
    /\ \E c \in getOccupiedCells(a, gridPosition[a]) \cap getOccupiedCells(b, gridPosition[b]) :
         isInBounds(c.row, c.col) /\ cells[c] = b

(***************************************************************************)
(* Properties: Block methods                                               *)
(***************************************************************************)
\* C21: a call of setGridPosition(r, c) that repeats the call before it on
\* the same block leaves the occupancy table, the block's grid position, its
\* continuous position and its last valid position as the first call left
\* them.
SetGridPositionIdempotent ==
  [][(lastEvent'.handler = "setGridPosition" /\ lastEvent'.outcome = "repeated")
       => UNCHANGED << cells, gridPosition, pos, lastValidPosition >>]_vars

\* setGridPosition was called twice in a row with a cell that another block
\* held, or that is partly off the board
RepeatedOnForeignCell ==
  /\ lastEvent.handler = "setGridPosition"
  /\ lastEvent.outcome = "repeated"
  /\ \E c \in getOccupiedCells(lastEvent.block, gridPosition[lastEvent.block]) :
       \/ ~isInBounds(c.row, c.col)
       \/ \E b \in BlockIds \ { lastEvent.block } :
            c \in getOccupiedCells(b, gridPosition[b])

\* C24: startDrag sets the block's dragging flag and clears every cell the
\* block holds, and nothing else of the table or of the positions; updateDrag
\* changes the continuous position of a dragging block only, and nothing at
\* all of a block that is not dragging; endDrag clears the dragging flag and
\* changes neither the table nor any position.
DragLifecycleEffects ==
  [][/\ lastEvent'.handler = "startDrag" =>
          /\ isDragging'[lastEvent'.block]
          /\ \A c \in Cells :
               cells'[c] = IF cells[c] = lastEvent'.block THEN Null ELSE cells[c]
          /\ UNCHANGED << gridPosition, lastValidPosition, pos >>
          /\ \A b \in BlockIds \ { lastEvent'.block } : isDragging'[b] = isDragging[b]
     /\ lastEvent'.handler = "updateDrag" =>
          /\ UNCHANGED << cells, gridPosition, lastValidPosition, isDragging >>
          /\ \A b \in BlockIds \ { lastEvent'.block } : pos'[b] = pos[b]
          /\ ~isDragging[lastEvent'.block] => pos' = pos
     /\ lastEvent'.handler = "endDrag" =>
          /\ ~isDragging'[lastEvent'.block]
          /\ UNCHANGED << cells, gridPosition, lastValidPosition, pos >>
          /\ \A b \in BlockIds \ { lastEvent'.block } : isDragging'[b] = isDragging[b]
    ]_vars

\* A block was picked up, moved away from its cell and put down by endDrag,
\* with its cells still cleared
PutDownAwayFromItsCell ==
  \E b \in BlockIds :
    /\ lastEvent.handler = "endDrag"
    /\ lastEvent.block = b
    /\ ~isDragging[b]
    /\ pos[b] # gridToWorld(gridPosition[b].row + shapeOriginOffset[b].row,
                             gridPosition[b].col + shapeOriginOffset[b].col)
    /\ \A c \in Cells : cells[c] # b

\* C25: at most one block has its dragging flag set, and the controller's
\* active block is non-null exactly when some block is dragging, in which
\* case it is that block.
AtMostOneDragging ==
  /\ Cardinality({ b \in BlockIds : isDragging[b] }) <= 1
  /\ (activeBlock # Null) <=> (\E b \in BlockIds : isDragging[b])
  /\ activeBlock # Null => isDragging[activeBlock]

\* The second of two blocks picked up one after the other was released, and
\* the first is left dragging with its cells cleared and no active block
FirstBlockStuckDragging ==
  /\ lastEvent.handler = "onDragEnd"
  /\ activeBlock = Null
  /\ \E b \in BlockIds \ { lastEvent.block } :
       /\ isDragging[b]
       /\ b \in Range(blocks)
       /\ \A c \in Cells : cells[c] # b

LoadedLevel == ShippedLevels[probe.level]

\* Block i of the level lies inside the grid, off the obstacles and off the
\* blocks before it
LegalStart(level, i) ==
  /\ \A cell \in Range(levelBlockCells(level, i)) :
       /\ levelInBounds(level, cell)
       /\ cell \notin level.obstacles
  /\ \A j \in 1..(i - 1) :
       Range(levelBlockCells(level, i)) \cap Range(levelBlockCells(level, j)) = {}

\* C26: every block constructed while a shipped level loads has all its
\* initial cells inside the level's grid, on no obstacle cell and on no cell
\* of a block constructed before it.
ShippedLevelsLoadLegal ==
  probe.op = "create" => \A i \in 1..probe.built : LegalStart(LoadedLevel, i)

\* A level is loaded completely, with a block on an obstacle cell and a block
\* with a cell outside the grid
LoadedWithIllegalBlocks ==
  /\ probe.op = "create"
  /\ probe.built = Len(LoadedLevel.blocks)
  /\ \E i \in 1..probe.built : \E cell \in Range(levelBlockCells(LoadedLevel, i)) :
       cell \in LoadedLevel.obstacles
  /\ \E i \in 1..probe.built : \E cell \in Range(levelBlockCells(LoadedLevel, i)) :
       ~levelInBounds(LoadedLevel, cell)

\* The number of cells of block i's bounding box along the side of the exit
ExtentAlong(level, i, exit) ==
  IF exit.side \in {"top", "bottom"}
  THEN SetMax({ c.col : c \in Range(levelBlockCells(level, i)) })
         - SetMin({ c.col : c \in Range(levelBlockCells(level, i)) }) + 1
  ELSE SetMax({ c.row : c \in Range(levelBlockCells(level, i)) })
         - SetMin({ c.row : c \in Range(levelBlockCells(level, i)) }) + 1

\* The exits of the level that have block i's colour and are long enough
\* for it
FittingExits(level, i) ==
  { k \in DOMAIN level.exits :
      /\ toLowerCase(level.exits[k].color) = toLowerCase(level.blocks[i].color)
      /\ level.exits[k].endCell - level.exits[k].startCell + 1
           >= ExtentAlong(level, i, level.exits[k]) }

\* C27: every block of a shipped level has an exit of its own colour whose
\* cell range is at least as long as the block's bounding box along the
\* exit's side, without which the block can never be removed and the level
\* never be won.
ShippedBlocksHaveFittingExit ==
  probe.op = "create" => \A i \in 1..probe.built : FittingExits(LoadedLevel, i) # {}

\* The first level is loaded completely and one of its blocks has no exit of
\* its colour at all
FirstLevelLoadedWithExitlessBlock ==
  /\ probe.op = "create"
  /\ probe.level = 1
  /\ probe.built = Len(LoadedLevel.blocks)
  /\ \E i \in 1..probe.built :
       \A k \in DOMAIN LoadedLevel.exits :
         toLowerCase(LoadedLevel.exits[k].color) # toLowerCase(LoadedLevel.blocks[i].color)

(***************************************************************************)
(* Properties: alignment with the exit on a grid of any size               *)
(***************************************************************************)
\* The cells of a block of shape s at gridPosition gp
ProbeCells(s, gp) ==
  { O(gp.row + o.row + originOffsetOf(s).row, gp.col + o.col + originOffsetOf(s).col) :
    o \in Range(normalizedOffsetsOf(s)) }

\* The block touches the perimeter on the exit's side
FlushAgainst(grid, exit, s, gp) ==
  CASE exit.side = "left" -> SetMin({ c.col : c \in ProbeCells(s, gp) }) = 0
    [] exit.side = "right" -> SetMax({ c.col : c \in ProbeCells(s, gp) }) = grid.cols - 1
    [] exit.side = "top" -> SetMin({ c.row : c \in ProbeCells(s, gp) }) = 0
    [] exit.side = "bottom" -> SetMax({ c.row : c \in ProbeCells(s, gp) }) = grid.rows - 1

\* The block's cells along the exit's side lie within the exit's cell range
WithinExitRange(exit, s, gp) ==
  IF exit.side \in {"top", "bottom"}
  THEN \A c \in ProbeCells(s, gp) : exit.startCell <= c.col /\ c.col <= exit.endCell
  ELSE \A c \in ProbeCells(s, gp) : exit.startCell <= c.row /\ c.row <= exit.endCell

\* C28: on every grid with a positive cell size, an exit of the block's
\* colour is returned only for a block flush against the perimeter on the
\* exit's side, and is returned for every flush block whose cells lie within
\* the exit's cell range.
RemovedExactlyWhenFlush ==
  probe.op = "checkExitCondition" =>
    /\ probe.returned => FlushAgainst(probe.grid, probe.exit, probe.shape, probe.gridPosition)
    /\ ( /\ FlushAgainst(probe.grid, probe.exit, probe.shape, probe.gridPosition)
         /\ WithinExitRange(probe.exit, probe.shape, probe.gridPosition) )
       => probe.returned

\* A flush block is accepted at a right exit of a grid with walls two pixels
\* thick
AcceptedFlushAtRightExit ==
  /\ probe.op = "checkExitCondition"
  /\ probe.returned
  /\ probe.exit.side = "right"
  /\ probe.grid.cols = MaxGridSide
  /\ probe.grid.wallThickness >= 2

(***************************************************************************)
(* Properties: a removed block                                             *)
(***************************************************************************)
\* C29: once a block has been removed (its removal tween runs or it is
\* destroyed) no step makes it dragging, writes it into a cell of the grid
\* or calls onBlockRemoved or onMoveComplete for it, so that it is notified
\* as removed at most once and never counts as a move again.
RemovedBlockStaysRemoved ==
  [][\A b \in BlockIds :
       disposal[b] # "none" =>
         /\ ~isDragging'[b]
         /\ \A c \in Cells : cells'[c] # b
         /\ ~( /\ lastEvent'.handler = "onDragEnd"
               /\ lastEvent'.block = b
               /\ lastEvent'.callbacks # << >> )]_vars

\* A block whose removal tween runs has been put down on the grid again: it
\* holds a cell and the drag-end has called onMoveComplete
RemovedBlockSnappedOntoGrid ==
  \E b \in BlockIds :
    /\ disposal[b] = "tween"
    /\ lastEvent.handler = "onDragEnd"
    /\ lastEvent.block = b
    /\ lastEvent.outcome = "snapped"
    /\ lastEvent.callbacks = << "onMoveComplete" >>
    /\ \E c \in Cells : cells[c] = b

(***************************************************************************)
(* Properties: the outcome of a play                                       *)
(***************************************************************************)
\* C30: a play never triggers both the victory transition (onLevelComplete)
\* and the defeat transition (onTimeUp): after time-up a drag-end that
\* removes the last block does not trigger level-complete, and after
\* level-complete no time-up fires.
OutcomeExclusive ==
  ~( /\ "onLevelComplete" \in Range(triggered)
     /\ "onTimeUp" \in Range(triggered) )

\* Time-up fired, and the drag-end that then removed the last block
\* triggered level-complete while the defeat scene was still to start
LevelCompleteAfterTimeUp ==
  /\ triggered = << "onTimeUp", "onLevelComplete" >>
  /\ timer = 0
  /\ blocks = << >>
  /\ scene = "GameScene"
  /\ lastEvent.handler = "onDragEnd"
  /\ lastEvent.outcome = "removed"

(***************************************************************************)
(* Properties: the countdown                                               *)
(***************************************************************************)
\* C31: the countdown is the level's time limit until the timer starts; it
\* changes only by a timer tick while the game is active, by exactly one
\* down; it is never negative; onTimeUp is triggered exactly in the step in
\* which it reaches zero; and once a victory or a time-up has been triggered
\* it does not change any more.
CountdownByTicks ==
  /\ [][ /\ timer' # timer =>
              /\ lastEvent'.handler = "onTimerTick"
              /\ isGameActive
              /\ timer' = timer - 1
         /\ ( /\ Len(triggered') = Len(triggered) + 1
              /\ triggered'[Len(triggered')] = "onTimeUp" )
              <=> (timer' = 0 /\ timer # 0)
         /\ triggered # << >> => timer' = timer ]_vars
  /\ [](timer >= 0)
  /\ [](~timerStarted => timer = LevelData.timeLimit)

\* The countdown has run from the time limit down to zero and the tick that
\* brought it there triggered the time-up
CountedDownToTimeUp ==
  /\ timer = 0
  /\ triggered = << "onTimeUp" >>
  /\ ~isGameActive
  /\ lastEvent.handler = "onTimerTick"

BothAcceptForLiftedBlock ==
  /\ probe.op = "legality"
  /\ probe.canBlockMoveTo
  /\ probe.isValidGridPosition
  /\ activeBlock = probe.block
  /\ O(probe.row, probe.col) # gridPosition[probe.block]

(***************************************************************************)
(* Properties: the shape catalog                                           *)
(***************************************************************************)
\* C33: for every shape of the catalog and every grid position, the cells
\* isValidGridPosition checks are the cells getOccupiedCells gives for that
\* position, and when the position is accepted they are exactly the cells
\* setGridPosition marks as occupied.
CheckedCellsAreCommittedCells ==
  probe.op = "setGridPosition" =>
    /\ probe.checked = getOccupiedCellsOf(probe.shape, O(probe.row, probe.col))
    /\ probe.isValidGridPosition => probe.occupied = probe.checked

\* The cross is accepted and committed at a position away from the corner
CrossCommittedWhereChecked ==
  /\ probe.op = "setGridPosition"
  /\ probe.shape = "Cross"
  /\ probe.row = 1 /\ probe.col = 1
  /\ probe.isValidGridPosition
  /\ probe.occupied = {O(1, 2), O(2, 1), O(2, 2), O(2, 3), O(3, 2)}

\* The cells of S that can be reached from the cells of R by steps to a
\* neighbour above, below, left or right
RECURSIVE Connected(_, _)
Connected(R, S) ==
  LET grown == R \cup { c \in S : \E d \in R : Abs(c.row - d.row) + Abs(c.col - d.col) = 1 }
  IN  IF grown = R THEN R ELSE Connected(grown, S)

\* C39: every shape of the catalog has at least one offset, no offset twice,
\* minimum row and minimum column zero, so that the constructed block's
\* origin offset is (0, 0), and its cells are 4-connected.
ShapesAreWellFormed ==
  probe.op \in {"block", "setGridPosition"} =>
    /\ Len(probe.rawOffsets) >= 1
    /\ \A i, j \in DOMAIN probe.rawOffsets :
         probe.rawOffsets[i] = probe.rawOffsets[j] => i = j
    /\ SetMin({ probe.rawOffsets[i].row : i \in DOMAIN probe.rawOffsets }) = 0
    /\ SetMin({ probe.rawOffsets[i].col : i \in DOMAIN probe.rawOffsets }) = 0
    /\ probe.shapeOriginOffset = O(0, 0)
    /\ probe.shapeOffsets = probe.rawOffsets
    /\ Connected({probe.rawOffsets[1]}, Range(probe.rawOffsets)) = Range(probe.rawOffsets)

\* A block of the T shape whose first offset is not the corner has been
\* constructed
ConstructedTShape ==
  /\ probe.op = "block"
  /\ probe.shape = "T_270"
  /\ probe.rawOffsets[1] = O(0, 1)
  /\ Len(probe.rawOffsets) = 4

(***************************************************************************)
(* Properties: the grab offset                                             *)
(***************************************************************************)
\* C34: a drag-start stores the block's position minus the pointer position
\* as the grab offset; a drag-move asks the collision resolution for the
\* pointer position plus that offset and puts the block where the
\* resolution says; and a drag-move with the pointer where it went down,
\* right after the drag-start, leaves the block where it is.
DragFollowsGrabOffset ==
  [][ /\ lastEvent'.handler = "onDragStart" =>
           dragOffset'[lastEvent'.block] =
             [x |-> pos[lastEvent'.block].x - probe'.down.x,
              y |-> pos[lastEvent'.block].y - probe'.down.y]
      /\ lastEvent'.handler = "onDrag" =>
           /\ pos'[lastEvent'.block] =
                getValidDragPosition(lastEvent'.block,
                                     probe'.at.x + dragOffset[lastEvent'.block].x,
                                     probe'.at.y + dragOffset[lastEvent'.block].y,
                                     pos[lastEvent'.block].x, pos[lastEvent'.block].y)
           /\ (lastEvent.handler = "onDragStart" /\ probe'.at = probe.down) => pos' = pos
    ]_vars

\* A drag-move has put the block somewhere else than under the pointer: the
\* resolution stopped it short of the desired position
StoppedShortOfPointer ==
  /\ probe.op = "pointer"
  /\ lastEvent.handler = "onDrag"
  /\ lastEvent.outcome = "stopped"
  /\ pos[lastEvent.block] # [x |-> probe.at.x + dragOffset[lastEvent.block].x,
                              y |-> probe.at.y + dragOffset[lastEvent.block].y]

(***************************************************************************)
(* Properties: the accessors of the Grid                                   *)
(***************************************************************************)
\* The position of the call lies in [0, rows) x [0, cols)
InRange(call) == 0 <= call.row /\ call.row < rows /\ 0 <= call.col /\ call.col < cols

\* The table differs from the table before in the cell of the call at most
OnlyCellOfCallWritten(call) ==
  \A c \in Cells : c # O(call.row, call.col) => cells'[c] = cells[c]

\* C35: out of range, isCellOccupied returns true, getCellOccupant returns
\* null, and setCellOccupied and clearCell leave the table as it is; in range
\* the two readers report the cell of the table, setCellOccupied writes the
\* occupant into that one cell, where getCellOccupant then finds it, and
\* clearCell empties that one cell; every cell holds one block or nothing.
GridAccessorsByConvention ==
  /\ [][ /\ probe'.op = "isCellOccupied" =>
               /\ cells' = cells
               /\ probe'.returned =
                    (IF InRange(probe') THEN cells[O(probe'.row, probe'.col)] # Null
                     ELSE TRUE)
         /\ probe'.op = "getCellOccupant" =>
               /\ cells' = cells
               /\ probe'.returned =
                    (IF InRange(probe') THEN cells[O(probe'.row, probe'.col)] ELSE Null)
         /\ (probe'.op \in {"setCellOccupied", "clearCell"} /\ ~InRange(probe')) =>
               cells' = cells
         /\ (probe'.op = "setCellOccupied" /\ InRange(probe')) =>
               /\ cells'[O(probe'.row, probe'.col)] = probe'.occupant
               /\ OnlyCellOfCallWritten(probe')
         /\ (probe'.op = "clearCell" /\ InRange(probe')) =>
               /\ cells'[O(probe'.row, probe'.col)] = Null
               /\ OnlyCellOfCallWritten(probe') ]_vars
  /\ [](cells \in [Cells -> BlockIds \cup {Null}])

\* A block has been written into the cell of the obstacle row that it did
\* not hold, and a write below the grid has left the table like that
WrittenThenIgnoredOutside ==
  /\ probe.op = "setCellOccupied"
  /\ probe.row = rows
  /\ probe.occupant = "block-0"
  /\ cells[O(1, 0)] = "block-1"

\* C36: clearEntity(entity) empties the cells that reference the entity and
\* leaves every other cell of the table as it was, so that no cell
\* references the entity afterwards.
ClearEntityClearsExactlyItsCells ==
  [][probe'.op = "clearEntity" =>
       /\ \A c \in Cells :
            cells'[c] = IF cells[c] = probe'.occupant THEN Null ELSE cells[c]
       /\ \A c \in Cells : cells'[c] # probe'.occupant]_vars

\* clearEntity has emptied two cells of one block and left a cell to the
\* other block
ClearedTwoCellsKeptOther ==
  /\ probe.op = "clearEntity"
  /\ Cardinality(probe.held) >= 2
  /\ \A c \in probe.held : cells[c] = Null
  /\ \E c \in Cells : cells[c] \notin {Null, probe.occupant}

CallRunning == probe.op # "none" /\ probe.pc # "returned"
CallReturned == probe.op # "none" /\ probe.pc = "returned"

\* C38: findNearestValidGridPosition evaluates isValidGridPosition at most
\* 49 times, once for the start cell and once for each of the 8 + 16 + 24
\* cells of the rings 1 to 3; getValidDragPosition evaluates canBlockMoveTo
\* at most once per sample, and there are fewer than 2 * distance / cellSize
\* + 1 samples; each call returns, the drag resolution with a position.
BoundedEvaluationsAndReturn ==
  /\ [](probe.op = "findNearestValidGridPosition" => probe.evaluations <= 49)
  /\ [](probe.op = "getValidDragPosition" =>
          /\ probe.evaluations <= probe.steps
          /\ (probe.steps - 1) * (probe.steps - 1) * cellSize * cellSize
               < 4 * (probe.dx * probe.dx + probe.dy * probe.dy)
             \/ probe.steps <= 1
          /\ probe.pc = "returned" =>
               /\ Len(probe.result) = 1
               /\ probe.result[1] \in [x : Int, y : Int])
  /\ CallRunning ~> CallReturned

\* The search has evaluated the start cell and all 48 ring cells and has
\* returned null
SearchedAllRingsInVain ==
  /\ probe.op = "findNearestValidGridPosition"
  /\ probe.pc = "returned"
  /\ probe.evaluations = 49
  /\ probe.result = << >>

=============================================================================
